---- MODULE Spec2Model ----
(***************************************************************************)
(* Motion controller of the three-wheel robot (src/Athena.py): the Flask   *)
(* handlers /cmd, /drive, /zlift, /config and /state running on            *)
(* concurrent request threads, the global RobotState they share, the coarse     *)
(* lock around it, the servo bus, and the persist call.                    *)
(*                                                                         *)
(* Numbers.  Speeds and servo positions are integers as in the code.       *)
(* Analog axes arrive as floats; the model draws them in hundredths.       *)
(* Velocities handed to the kinematics are in thousandths of a speed unit  *)
(* ("milli"), so that axis * speed * TURN_RATIO stays an integer.          *)
(* sin and cos are tabulated to 8 decimals.                                *)
(***************************************************************************)
EXTENDS Integers, Sequences, FiniteSets, TLC

\* ---------------------------------------------------------------- config
Z_LIFT_SERVO_ID == 4
Z_LIFT_DIR      == 1
Z_LIFT_MIN_POS  == 1200
Z_LIFT_MAX_POS  == 3000
Z_LIFT_HOME_POS == 2100
Z_LIFT_STEP_POS == 60
Z_LIFT_SPEED    == 1200
MIN_SPEED       == 0
MAX_SPEED       == 3000
SPEED_STEP      == 100
\* TURN_RATIO = 0.7, as a fraction
TURN_RATIO_NUM  == 7
TURN_RATIO_DEN  == 10
\* L = 1.0, the rotation gain of the kinematics
L               == 1
DEFAULT_SPEED   == 600
DEFAULT_HEADING == -20

SERVO_IDS  == <<1, 2, 3>>
DIR        == [sid \in {1, 2, 3} |-> 1]
ANGLES_DEG == [sid \in {1, 2, 3} |-> (sid - 1) * 120]

\* ---------------------------------------------------------------- arithmetic
Abs(x)    == IF x < 0 THEN -x ELSE x
Sgn(x)    == IF x < 0 THEN -1 ELSE 1
Min2(a, b) == IF a < b THEN a ELSE b
Max2(a, b) == IF a > b THEN a ELSE b

\* Python's round() of the rational n / d (d > 0): to nearest, ties to even.
RoundHalfEven(n, d) ==
    LET q == n \div d
        r == n % d
    IN  IF 2 * r < d THEN q
        ELSE IF 2 * r > d THEN q + 1
        ELSE IF q % 2 = 0 THEN q ELSE q + 1

\* sin and cos of the angles theta_i - heading that occur, times 10^8.
TrigHalf  == 100 * 100
TrigScale == TrigHalf * TrigHalf
Trig(deg) ==
    CASE deg = 0    -> [s |-> 0,         c |-> 100000000]
      [] deg = 120  -> [s |-> 86602540,  c |-> -50000000]
      [] deg = 240  -> [s |-> -86602540, c |-> -50000000]
      [] deg = 20   -> [s |-> 34202014,  c |-> 93969262]
      [] deg = 140  -> [s |-> 64278761,  c |-> -76604444]
      [] deg = 260  -> [s |-> -98480775, c |-> -17364818]
      [] deg = -15  -> [s |-> -25881905, c |-> 96592583]
      [] deg = 105  -> [s |-> 96592583,  c |-> -25881905]
      [] deg = 225  -> [s |-> -70710678, c |-> -70710678]

\* coef * v, coef in 10^-8 and v in milli: the product as whole units q plus
\* f * 10^-8, computed in pieces that fit a machine integer.
MulFrac(coef, v) ==
    LET sg == Sgn(coef) * Sgn(v)
        c1 == Abs(coef) \div TrigHalf
        c2 == Abs(coef) % TrigHalf
        vq == Abs(v) \div 1000
        vr == Abs(v) % 1000
        p  == c1 * vq
    IN  [q |-> sg * (p \div TrigHalf),
         f |-> sg * ((p % TrigHalf) * TrigHalf + c2 * vq
                     + c1 * vr * 10 + (c2 * vr) \div 1000)]

\* kinematics(vx, vy, omega, heading_deg): the speed of each wheel,
\* wi = round(-sin(th) * vx + cos(th) * vy + L * omega), th = angle_i - heading.
\* The sum is exact to 10^-5, so the result is the float computation's unless
\* the exact sum is a tie k + 1/2, where the float's last bit decides; the
\* speeds (multiples of 100) and axes the specifications draw produce no tie.
WheelOf(sid, vx, vy, omega, heading_deg) ==
    LET t  == Trig(ANGLES_DEG[sid] - heading_deg)
        a  == MulFrac(-t.s, vx)
        b  == MulFrac(t.c, vy)
        c  == MulFrac(L * TrigScale, omega)
    IN  (a.q + b.q + c.q) + RoundHalfEven(a.f + b.f + c.f, TrigScale)

kinematics(vx, vy, omega, heading_deg) ==
    [sid \in {1, 2, 3} |-> WheelOf(sid, vx, vy, omega, heading_deg)]

\* ---------------------------------------------------------------- state
VARIABLES
    RobotState,  \* the global STATE dictionary
    lock,        \* threading.Lock(): TRUE while held
    pc,          \* where each request thread stands in its handler
    req,         \* the JSON body each thread is serving
    loc,         \* each thread's locals: wheel vector, loop index, result
    wheel,       \* last speed the bus was given for each wheel servo
    zsent,       \* last position and speed the bus was given for the Z servo
    busCaps,     \* which write methods sms_sts() offers
    lastWriter,  \* history: thread of the latest write to RobotState or the bus
    plusRun,     \* history: number of `+` applied to the default speed with
                 \* no `-` so far; -1 once the speed has any other history
    zliftDir,    \* the Z_LIFT_DIR the server was started with (+1 / -1)
    \* steam_controller.py, discover_robots
    probes,      \* each submitted probe: "running", "done" or "yielded"
    scan,        \* where the scan thread stands in discover_robots
    cur,         \* the host whose future as_completed has just yielded
    found,       \* the list `found`, in the order results were appended
    stop_event,  \* scan_stop: TRUE once set
    scan_found,  \* scan_data["found"]: the list discover_robots returned
    lateAdds,    \* history: appends to `found` made after stop_event was set
    scan_done,   \* scan_data["done"] of server_browser
    \* steam_controller.py, MJPEGStream._run
    stream,      \* where the stream thread stands in _run
    stream_stop, \* self._stop
    body,        \* the bytes of the response iter_content has not yet handed over
    buf,         \* the local `buf`
    jpgs,        \* history: the byte strings handed to Image.open, in order
    failures,    \* history: how many times the except branch of _run ran
    frame,       \* self.frame: the latest decoded image, <<>> for None
    frames,      \* self.frames
    last_frame_ts, \* self.last_frame_ts, on the clock `cuts`
    cuts,        \* history: how many byte strings were handed to Image.open
                 \* since start(); serves as the clock of the stream thread
    slept,       \* history: the thread has been through time.sleep since
                 \* its last connection was opened (TRUE before the first)
    \* kinematics called on its own
    kin,         \* the latest call: arguments, returned vector, and the
                 \* vector the call before it returned
    hud,         \* where run_hud_session stands: "off", "enter", then round
                 \* the main loop "tick", "poll", "events", "pad", "draw"
    clk,         \* time.time(), in milliseconds
    now,         \* the local `now` of the main loop
    last_poll,
    last_state_ok_ts,
    last_cmd_sent,
    held_cmd,
    joystick,    \* TRUE when a gamepad was found (joystick is not None)
    axes,        \* what joystick.get_axis(0..4) return, in hundredths
    down,        \* the directional keys that are physically down
    ev,          \* history: the event handled in the present iteration
    sent,        \* history: the codes robot_cmd posted in this iteration
    gap,         \* history: the time between the last two posts of
                 \* maybe_send_cmd
    acked,       \* history: the last post of robot_cmd reached the robot
                 \* (FALSE: requests.post raised, and robot_cmd passed)
    polled,      \* history: what the poll of this iteration did
    since,       \* history: the key that has been down alone, with the stick
                 \* at rest and no other event, and since when
    cams,        \* the camera list, one url number per camera
    cam_streams, \* indices into `made`
    active_cam,
    made,        \* every MJPEGStream created so far: its url and _stop
    link_str

\* What no handler of the server changes: the bus, the build, the console.
env == <<busCaps, zliftDir>>
discVars == <<probes, scan, cur, found, stop_event, scan_found, lateAdds,
              scan_done>>
pub == <<frame, frames, last_frame_ts, cuts>>
streamVars == <<stream, stream_stop, body, buf, jpgs, failures, pub, slept>>
hudVars == <<hud, clk, now, last_poll, last_state_ok_ts, last_cmd_sent,
             held_cmd, joystick, axes, down, ev, sent, gap, acked, polled, since,
             cams, cam_streams, active_cam, made, link_str>>
console == <<discVars, streamVars, kin, hudVars>>
ctlVars == <<RobotState, lock, pc, req, loc, wheel, zsent, lastWriter, plusRun>>

vars == <<ctlVars, env, console>>

\* ---------------------------------------------------------------- bounds
NThreads == 2
MaxCams  == 4
MaxRun   == 26

Threads == 1..NThreads

\* ---------------------------------------------------------------- persisted state
DEFAULT_Z_LIFT ==
    [id |-> Z_LIFT_SERVO_ID, pos |-> Z_LIFT_HOME_POS, min |-> Z_LIFT_MIN_POS,
     max |-> Z_LIFT_MAX_POS, step |-> Z_LIFT_STEP_POS, speed |-> Z_LIFT_SPEED,
     home |-> Z_LIFT_HOME_POS]

\* Cameras are {name, url} entries; the model names an entry by a number.
DEFAULT_STATE ==
    [speed |-> DEFAULT_SPEED, forward_heading_deg |-> DEFAULT_HEADING,
     robot_name |-> "Athena", z_lift |-> DEFAULT_Z_LIFT,
     show_all_cameras |-> TRUE, active_camera |-> 0, cameras |-> <<1, 2, 3>>]

NoFile == [missing |-> TRUE]

\* load_state(): the keys the file has replace the defaults, z_lift keys the
\* file lacks are filled from the defaults, an empty robot_name is replaced.
\* No value is range-checked.
load_state(disk) ==
    IF "missing" \in DOMAIN disk THEN DEFAULT_STATE
    ELSE LET s == [k \in DOMAIN DEFAULT_STATE |->
                      IF k \in DOMAIN disk THEN disk[k] ELSE DEFAULT_STATE[k]]
             z == [kk \in DOMAIN DEFAULT_Z_LIFT |->
                      IF kk \in DOMAIN s.z_lift THEN s.z_lift[kk]
                      ELSE DEFAULT_Z_LIFT[kk]]
         IN  [s EXCEPT !.z_lift = z,
                       !.robot_name = IF s.robot_name = "" THEN "Athena"
                                      ELSE s.robot_name]

\* ---------------------------------------------------------------- requests
\* One JSON body.  kind: the route.  c: the "cmd" string.  vx, vy, omega: the
\* analog axes in hundredths.  form/val/preset/hasSpeed/spd: the /zlift body
\* (form is the first of pos, delta, preset the body has).  The has* flags
\* and their values: the /config patch.  bad: the field whose value does not
\* parse as a number ("" when all do).
NoReq ==
    [kind |-> "none", c |-> "", vx |-> 0, vy |-> 0, omega |-> 0,
     form |-> "none", val |-> 0, preset |-> "", hasSpeed |-> FALSE, spd |-> 0,
     hasHeading |-> FALSE, heading |-> 0, hasActive |-> FALSE, active |-> 0,
     hasShow |-> FALSE, show |-> FALSE, hasAdd |-> FALSE, addUrl |-> FALSE,
     cam |-> 0, remove |-> FALSE, bad |-> ""]

CmdReq(c)            == [NoReq EXCEPT !.kind = "cmd", !.c = c]
DriveReq(vx, vy, om) == [NoReq EXCEPT !.kind = "drive", !.vx = vx, !.vy = vy, !.omega = om]
ZliftReq(form, val)  == [NoReq EXCEPT !.kind = "zlift", !.form = form, !.val = val]
ZliftPreset(p)       == [NoReq EXCEPT !.kind = "zlift", !.form = "preset", !.preset = p]
ConfigReq            == [NoReq EXCEPT !.kind = "config"]
StateReq             == [NoReq EXCEPT !.kind = "state"]

\* A thread's locals.  w: the wheel vector apply_drive is writing, i: the next
\* wheel, args: what kinematics was called with (milli), zpos/zspd: what
\* zlift_move_to hands to set_servo_position, res: the response.  History:
\* saved, the outcome of this request's save_state call, and dirty, whether
\* this request changed RobotState since its last save_state call.
NoLoc == [w |-> <<0, 0, 0>>, i |-> 0, args |-> <<0, 0, 0>>, zpos |-> 0, zspd |-> 0,
          res |-> "", saved |-> "none", dirty |-> FALSE]

InCS(t) == pc[t] \in {"cmd", "drive", "zlift", "config", "state",
                      "zwrite", "wheel", "stop", "save", "ret", "raise"}

\* The state after the module has been imported: RobotState = load_state(), the
\* lock free, no request in progress, nothing written to the bus yet.
\* The console while it runs no scan and no stream, and no kinematics call
\* made on its own.
DiscIdle ==
    /\ probes = <<>>
    /\ scan = "idle"
    /\ cur = 0
    /\ found = <<>>
    /\ stop_event = FALSE
    /\ scan_found = <<>>
    /\ lateAdds = 0
    /\ scan_done = FALSE

StreamIdle ==
    /\ stream = "idle"
    /\ stream_stop = FALSE
    /\ body = <<>>
    /\ buf = <<>>
    /\ jpgs = <<>>
    /\ failures = 0
    /\ frame = <<>>
    /\ frames = 0
    /\ last_frame_ts = 0
    /\ cuts = 0
    /\ slept = TRUE

\* called: a call has been made; args, out: its arguments and what it
\* returned; repeat: the call before it had the same arguments; prevOut: what
\* that call returned.
NoKin == [called |-> FALSE, args |-> <<0, 0, 0, 0>>, out |-> <<0, 0, 0>>,
          repeat |-> FALSE, prevOut |-> <<0, 0, 0>>]

KinIdle == kin = NoKin

\* time.time() when run_hud_session is entered.
T0 == 100000

DEFAULT_CAM_INDEX == 1

NoEv == [type |-> "none", key |-> ""]

Centre == <<0, 0, 0, 0, 0>>

NoHold == [key |-> "", at |-> 0]

\* The locals of run_hud_session as lines 601-624 and 692 set them, with a
\* gamepad or without.
HudLocals(joys) ==
    /\ clk = T0
    /\ now = T0
    /\ last_poll = 0
    /\ last_state_ok_ts = 0
    /\ last_cmd_sent = 0
    /\ held_cmd = "X"
    /\ joystick \in joys
    /\ axes = Centre
    /\ down = {}
    /\ ev = NoEv
    /\ sent = <<>>
    /\ gap = 0
    /\ acked = TRUE
    /\ polled = "skip"
    /\ since = NoHold
    /\ cams = <<>>
    /\ cam_streams = <<>>
    /\ active_cam = DEFAULT_CAM_INDEX
    /\ made = <<>>
    /\ link_str = ""

\* No console session is open.
HudIdle == hud = "off" /\ HudLocals({FALSE})

\* run_hud_session has been called.
HudStart == hud = "enter" /\ HudLocals(BOOLEAN)

InitCtl(disks, caps, dirs) ==
    /\ \E disk \in disks : RobotState = load_state(disk)
    /\ zliftDir \in dirs
    /\ lock = FALSE
    /\ pc = [t \in Threads |-> "idle"]
    /\ req = [t \in Threads |-> NoReq]
    /\ loc = [t \in Threads |-> NoLoc]
    /\ wheel = [sid \in {1, 2, 3} |-> 0]
    /\ zsent = [pos |-> 0, speed |-> 0]
    /\ busCaps \in caps
    /\ lastWriter = 0
    /\ plusRun = IF RobotState.speed = DEFAULT_SPEED THEN 0 ELSE -1

\* The server alone: the console runs no scan and no stream.
InitDir(disks, caps, dirs) ==
    /\ InitCtl(disks, caps, dirs)
    /\ DiscIdle
    /\ StreamIdle
    /\ KinIdle
    /\ HudIdle

\* The server as the source has it: Z_LIFT_DIR = 1.
InitWith(disks, caps) == InitDir(disks, caps, {Z_LIFT_DIR})

\* ---------------------------------------------------------------- the lock
LockFree_Broken == TRUE

\* `with lock:` is entered only while no thread holds the lock.
LockFree == lock = FALSE

\* Flask (threaded=True) hands a request to thread t; the thread runs up to
\* the handler's `with lock:` and blocks there while the lock is held.
Arrive(t) ==
    /\ pc[t] = "idle"
    /\ pc' = [pc EXCEPT ![t] = "wait"]
    /\ UNCHANGED <<RobotState, lock, req, loc, wheel, zsent, env, console, lastWriter, plusRun>>

\* The thread enters `with lock:` with the body r it has read.  (/drive
\* parses and clamps its floats before the lock; both touch only locals.)
Acquire(t, r) ==
    /\ pc[t] = "wait"
    /\ r.kind \in {"cmd", "drive", "zlift", "config", "state"}
    /\ ~(r.kind = "drive" /\ r.bad = "float")
    /\ (r.kind = "config" /\ r.hasAdd /\ r.addUrl) => Len(RobotState.cameras) < MaxCams
    /\ LockFree
    /\ lock' = TRUE
    /\ pc' = [pc EXCEPT ![t] = r.kind]
    /\ req' = [req EXCEPT ![t] = r]
    /\ loc' = [loc EXCEPT ![t] = NoLoc]
    /\ UNCHANGED <<RobotState, wheel, zsent, env, console, lastWriter, plusRun>>

\* A lock released by hand on the return path only.
Release_OnReturn(t) ==
    /\ pc[t] \in {"ret", "raise"}
    /\ lock' = (pc[t] = "raise")
    /\ pc' = [pc EXCEPT ![t] = "idle"]
    /\ req' = [req EXCEPT ![t] = NoReq]
    /\ loc' = [loc EXCEPT ![t] = NoLoc]
    /\ UNCHANGED <<RobotState, wheel, zsent, env, console, lastWriter, plusRun>>

\* Leaving the `with` block, by return or by an exception: the lock is
\* released and the response (or the 500) goes out.
Release(t) ==
    /\ pc[t] \in {"ret", "raise"}
    /\ lock' = FALSE
    /\ pc' = [pc EXCEPT ![t] = "idle"]
    /\ req' = [req EXCEPT ![t] = NoReq]
    /\ loc' = [loc EXCEPT ![t] = NoLoc]
    /\ UNCHANGED <<RobotState, wheel, zsent, env, console, lastWriter, plusRun>>

\* ---------------------------------------------------------------- persist
SavePc_Uncaught(ok) == IF ok THEN "ret" ELSE "raise"

\* save_state catches every exception of the write: the handler goes on to
\* its return whether the write succeeded or not.
SavePc(ok) == "ret"

SaveState(t) ==
    /\ pc[t] = "save"
    /\ \E ok \in BOOLEAN :
          /\ pc' = [pc EXCEPT ![t] = SavePc(ok)]
          /\ loc' = [loc EXCEPT ![t].saved = IF ok THEN "ok" ELSE "failed",
                                ![t].dirty = FALSE,
                                ![t].res = IF SavePc(ok) = "ret" THEN @ ELSE "500"]
    /\ UNCHANGED <<RobotState, lock, req, wheel, zsent, env, console, lastWriter, plusRun>>

\* ---------------------------------------------------------------- /cmd: speed
SpeedUp_NoClamp(s) == s + SPEED_STEP

SpeedUp(s) == Min2(MAX_SPEED, s + SPEED_STEP)

SpeedDown_NoClamp(s) == s - SPEED_STEP

SpeedDown(s) == Max2(MIN_SPEED, s - SPEED_STEP)

IsPlus(c)  == c \in {"+", "="}
IsMinus(c) == c = "-"

\* The speed commands with an expiry of the running drive: the wheels are
\* zeroed when the speed changes.
CmdSpeed_Expire(t) ==
    /\ pc[t] = "cmd"
    /\ IsPlus(req[t].c) \/ IsMinus(req[t].c)
    /\ LET s == IF IsPlus(req[t].c) THEN SpeedUp(RobotState.speed)
                ELSE SpeedDown(RobotState.speed)
       IN  /\ RobotState' = [RobotState EXCEPT !.speed = s]
           /\ loc' = [loc EXCEPT ![t].dirty = @ \/ s # RobotState.speed,
                                 ![t].res = "ok"]
    /\ plusRun' = IF IsPlus(req[t].c) /\ plusRun >= 0
                  THEN Min2(plusRun + 1, MaxRun) ELSE -1
    /\ pc' = [pc EXCEPT ![t] = "save"]
    /\ lastWriter' = t
    /\ wheel' = [sid \in {1, 2, 3} |-> 0]
    /\ UNCHANGED <<lock, req, zsent, env, console>>

CmdSpeed(t) ==
    /\ pc[t] = "cmd"
    /\ IsPlus(req[t].c) \/ IsMinus(req[t].c)
    /\ LET s == IF IsPlus(req[t].c) THEN SpeedUp(RobotState.speed)
                ELSE SpeedDown(RobotState.speed)
       IN  /\ RobotState' = [RobotState EXCEPT !.speed = s]
           /\ loc' = [loc EXCEPT ![t].dirty = @ \/ s # RobotState.speed,
                                 ![t].res = "ok"]
    /\ plusRun' = IF IsPlus(req[t].c) /\ plusRun >= 0
                  THEN Min2(plusRun + 1, MaxRun) ELSE -1
    /\ pc' = [pc EXCEPT ![t] = "save"]
    /\ lastWriter' = t
    /\ UNCHANGED <<lock, req, wheel, zsent, env, console>>

\* ---------------------------------------------------------------- Z-lift
zlift_clamp_UpperOnly(pos) == Min2(RobotState.z_lift.max, pos)

\* zlift_clamp(pos) = max(z.min, min(z.max, pos))
zlift_clamp(pos) == Max2(RobotState.z_lift.min, Min2(RobotState.z_lift.max, pos))

\* `speed or int(z["speed"])`: an absent override, or one that is 0, gives
\* the configured speed.
ZSpeed(hasSpeed, spd) ==
    IF hasSpeed /\ spd # 0 THEN spd ELSE RobotState.z_lift.speed

\* The position set_servo_position puts on the bus: mirrored about the
\* midpoint of the compiled-in range when Z_LIFT_DIR is -1.
SentPos(pos) ==
    IF zliftDir = -1
    THEN LET mid == (Z_LIFT_MIN_POS + Z_LIFT_MAX_POS) \div 2 IN mid - (pos - mid)
    ELSE pos

\* zlift_move_to(pos, speed) up to its bus write: clamp, store in
\* RobotState.z_lift.pos, and go on to set_servo_position.
ZMoveTo(t, target, hasSpeed, spd) ==
    LET p == zlift_clamp(target) IN
    /\ RobotState' = [RobotState EXCEPT !.z_lift.pos = p]
    /\ loc' = [loc EXCEPT ![t].zpos = p, ![t].zspd = ZSpeed(hasSpeed, spd),
                          ![t].dirty = @ \/ p # RobotState.z_lift.pos,
                          ![t].res = "ok"]
    /\ pc' = [pc EXCEPT ![t] = "zwrite"]
    /\ lastWriter' = t

ZUpCodes   == {"Z+", "ZU", "ZUP"}
ZDownCodes == {"Z-", "ZD", "ZDN"}
ZHomeCodes == {"Z0", "ZHOME"}
ZCodes     == ZUpCodes \cup ZDownCodes \cup ZHomeCodes \cup {"ZMAX", "ZMIN"}

\* The target of a Z command of /cmd.
CmdZTarget(c) ==
    LET z == RobotState.z_lift IN
    IF c \in ZUpCodes THEN z.pos + z.step
    ELSE IF c \in ZDownCodes THEN z.pos - z.step
    ELSE IF c \in ZHomeCodes THEN z.home
    ELSE IF c = "ZMAX" THEN z.max
    ELSE z.min

CmdZ(t) ==
    /\ pc[t] = "cmd"
    /\ req[t].c \in ZCodes
    /\ ZMoveTo(t, CmdZTarget(req[t].c), FALSE, 0)
    /\ UNCHANGED <<lock, req, wheel, zsent, env, console, plusRun>>

\* str(data["preset"]).lower().strip(), for the preset strings of the menus.
PresetNorm(p) ==
    CASE p = " MAX" -> "max"
      [] p = "Home" -> "home"
      [] OTHER -> p

\* The target of a /zlift body; the preset "home" is the compiled-in home.
ZliftTarget(r) ==
    LET z == RobotState.z_lift IN
    IF r.form = "pos" THEN r.val
    ELSE IF r.form = "delta" THEN z.pos + r.val
    ELSE IF PresetNorm(r.preset) = "home" THEN Z_LIFT_HOME_POS
    ELSE IF PresetNorm(r.preset) = "min" THEN z.min
    ELSE z.max

ZliftHasTarget_Any(r) == TRUE

ZliftHasTarget(r) ==
    \/ r.form \in {"pos", "delta"}
    \/ r.form = "preset" /\ PresetNorm(r.preset) \in {"home", "min", "max"}

\* int() of a value that is no number raises inside the with block: of pos or
\* delta when the target is read, of speed once a target has been found.
ZliftRaises(r) ==
    \/ r.bad = "pos" /\ r.form \in {"pos", "delta"}
    \/ r.bad = "speed" /\ r.hasSpeed /\ ZliftHasTarget(r)

ZliftBody(t) ==
    /\ pc[t] = "zlift"
    /\ IF ZliftRaises(req[t])
       THEN /\ pc' = [pc EXCEPT ![t] = "raise"]
            /\ loc' = [loc EXCEPT ![t].res = "500"]
            /\ UNCHANGED <<RobotState, lastWriter>>
       ELSE IF ~ZliftHasTarget(req[t])
       THEN /\ pc' = [pc EXCEPT ![t] = "ret"]
            /\ loc' = [loc EXCEPT ![t].res = "provide pos/delta/preset"]
            /\ UNCHANGED <<RobotState, lastWriter>>
       ELSE ZMoveTo(t, ZliftTarget(req[t]), req[t].hasSpeed, req[t].spd)
    /\ UNCHANGED <<lock, req, wheel, zsent, env, console, plusRun>>

\* set_servo_position: the write, or RuntimeError when the bus offers no
\* position-write method; the error leaves zlift_move_to and the handler.
ServoWrite(t) ==
    /\ pc[t] = "zwrite"
    /\ IF busCaps.pos
       THEN /\ zsent' = [pos |-> SentPos(loc[t].zpos), speed |-> loc[t].zspd]
            /\ pc' = [pc EXCEPT ![t] = "save"]
            /\ lastWriter' = t
            /\ UNCHANGED loc
       ELSE /\ pc' = [pc EXCEPT ![t] = "raise"]
            /\ loc' = [loc EXCEPT ![t].res = "500"]
            /\ UNCHANGED <<zsent, lastWriter>>
    /\ UNCHANGED <<RobotState, lock, req, wheel, env, console, plusRun>>

\* ---------------------------------------------------------------- wheels
WheelValue_NoClamp(sid, speed) == speed * DIR[sid]

\* set_wheel_speed(sid, speed): clamp to [-MAX_SPEED, MAX_SPEED], then the
\* wheel's sign.
WheelValue(sid, speed) == Max2(-MAX_SPEED, Min2(MAX_SPEED, speed)) * DIR[sid]

\* One iteration of apply_drive's loop over the wheel vector.
WheelWrite(t) ==
    /\ pc[t] = "wheel"
    /\ IF busCaps.speed
       THEN /\ wheel' = [wheel EXCEPT ![SERVO_IDS[loc[t].i]] =
                                         WheelValue(SERVO_IDS[loc[t].i], loc[t].w[loc[t].i])]
            /\ lastWriter' = t
            /\ loc' = [loc EXCEPT ![t].i = @ + 1,
                                  ![t].res = IF loc[t].i = Len(SERVO_IDS) THEN "ok" ELSE @]
            /\ pc' = [pc EXCEPT ![t] = IF loc[t].i = Len(SERVO_IDS) THEN "ret" ELSE "wheel"]
       ELSE /\ pc' = [pc EXCEPT ![t] = "raise"]
            /\ loc' = [loc EXCEPT ![t].res = "500"]
            /\ UNCHANGED <<wheel, lastWriter>>
    /\ UNCHANGED <<RobotState, lock, req, zsent, env, console, plusRun>>

\* One iteration of stop_all: set_wheel_speed(sid, 0), its error swallowed.
StopWrite(t) ==
    /\ pc[t] = "stop"
    /\ IF busCaps.speed
       THEN /\ wheel' = [wheel EXCEPT ![SERVO_IDS[loc[t].i]] =
                                         WheelValue(SERVO_IDS[loc[t].i], 0)]
            /\ lastWriter' = t
       ELSE UNCHANGED <<wheel, lastWriter>>
    /\ loc' = [loc EXCEPT ![t].i = @ + 1,
                          ![t].res = IF loc[t].i = Len(SERVO_IDS) THEN "ok" ELSE @]
    /\ pc' = [pc EXCEPT ![t] = IF loc[t].i = Len(SERVO_IDS) THEN "ret" ELSE "stop"]
    /\ UNCHANGED <<RobotState, lock, req, zsent, env, console, plusRun>>

\* apply_drive(vx, vy, omega) up to its loop: the wheel vector from the
\* kinematics at the current heading trim.  Arguments in milli.
ApplyDrive(t, vx, vy, omega) ==
    LET k == kinematics(vx, vy, omega, RobotState.forward_heading_deg) IN
    /\ loc' = [loc EXCEPT ![t].args = <<vx, vy, omega>>,
                          ![t].w = <<k[1], k[2], k[3]>>, ![t].i = 1]
    /\ pc' = [pc EXCEPT ![t] = "wheel"]

\* ---------------------------------------------------------------- /cmd: drive
DriveCodes == {"W", "S", "A", "D", "Q", "E", "X"}

\* turn = int(round(base * TURN_RATIO))
TurnOf(base) == RoundHalfEven(base * TURN_RATIO_NUM, TURN_RATIO_DEN)

CmdArgs_SameTurn(c, base) ==
    IF c = "W" THEN <<0, base, 0>>
    ELSE IF c = "S" THEN <<0, -base, 0>>
    ELSE IF c \in {"A", "D"} THEN <<0, base, TurnOf(base)>>
    ELSE IF c \in {"Q", "E"} THEN <<0, 0, TurnOf(base)>>
    ELSE <<0, 0, 0>>

\* (vx, vy, omega) of a discrete drive code at speed base, in speed units.
CmdArgs(c, base) ==
    IF c = "W" THEN <<0, base, 0>>
    ELSE IF c = "S" THEN <<0, -base, 0>>
    ELSE IF c = "A" THEN <<0, base, TurnOf(base)>>
    ELSE IF c = "D" THEN <<0, base, -TurnOf(base)>>
    ELSE IF c = "Q" THEN <<0, 0, TurnOf(base)>>
    ELSE IF c = "E" THEN <<0, 0, -TurnOf(base)>>
    ELSE <<0, 0, 0>>

CmdDrive(t) ==
    /\ pc[t] = "cmd"
    /\ req[t].c \in DriveCodes
    /\ LET a == CmdArgs(req[t].c, RobotState.speed)
       IN  ApplyDrive(t, a[1] * 1000, a[2] * 1000, a[3] * 1000)
    /\ UNCHANGED <<RobotState, lock, req, wheel, zsent, env, console, lastWriter, plusRun>>

CmdUnknown_AsStop(t) ==
    /\ pc[t] = "cmd"
    /\ ~(IsPlus(req[t].c) \/ IsMinus(req[t].c) \/ req[t].c \in ZCodes \/ req[t].c \in DriveCodes)
    /\ ApplyDrive(t, 0, 0, 0)
    /\ UNCHANGED <<RobotState, lock, req, wheel, zsent, env, console, lastWriter, plusRun>>

Recognised(c) == IsPlus(c) \/ IsMinus(c) \/ c \in ZCodes \/ c \in DriveCodes

\* The else branch: jsonify(ok=False, error="unknown cmd"), 400.
CmdUnknown(t) ==
    /\ pc[t] = "cmd"
    /\ ~Recognised(req[t].c)
    /\ pc' = [pc EXCEPT ![t] = "ret"]
    /\ loc' = [loc EXCEPT ![t].res = "unknown cmd"]
    /\ UNCHANGED <<RobotState, lock, req, wheel, zsent, env, console, lastWriter, plusRun>>

\* ---------------------------------------------------------------- /drive
\* max(-1.0, min(1.0, v)), v in hundredths
AxisClamp(v) == Max2(-100, Min2(100, v))

\* vx * base and vy * base, in milli
ScaleLinear(v, base) == AxisClamp(v) * base * 10

\* omega * base * TURN_RATIO, in milli
ScaleTurn(v, base) == (AxisClamp(v) * base * 10 * TURN_RATIO_NUM) \div TURN_RATIO_DEN

\* The near-zero threshold 1.0, in milli.
StopEpsMilli == 1000

NearZero_Inclusive(vx_u, vy_u, om_u) == Abs(vx_u) + Abs(vy_u) + Abs(om_u) <= StopEpsMilli

\* abs(vx_u) + abs(vy_u) + abs(om_u) < 1.0
NearZero(vx_u, vy_u, om_u) == Abs(vx_u) + Abs(vy_u) + Abs(om_u) < StopEpsMilli

DriveBody(t) ==
    /\ pc[t] = "drive"
    /\ LET base == RobotState.speed
           vx_u == ScaleLinear(req[t].vx, base)
           vy_u == ScaleLinear(req[t].vy, base)
           om_u == ScaleTurn(req[t].omega, base)
       IN  IF NearZero(vx_u, vy_u, om_u)
           THEN /\ loc' = [loc EXCEPT ![t].args = <<vx_u, vy_u, om_u>>, ![t].i = 1]
                /\ pc' = [pc EXCEPT ![t] = "stop"]
           ELSE ApplyDrive(t, vx_u, vy_u, om_u)
    /\ UNCHANGED <<RobotState, lock, req, wheel, zsent, env, console, lastWriter, plusRun>>

\* float() of an axis raises: the handler answers 400 "bad floats" before it
\* reaches the lock.
DriveBadFloats(t, r) ==
    /\ pc[t] = "idle"
    /\ r.kind = "drive" /\ r.bad = "float"
    /\ pc' = [pc EXCEPT ![t] = "rejected"]
    /\ req' = [req EXCEPT ![t] = r]
    /\ loc' = [loc EXCEPT ![t] = [NoLoc EXCEPT !.res = "bad floats"]]
    /\ UNCHANGED <<RobotState, lock, wheel, zsent, env, console, lastWriter, plusRun>>

Respond(t) ==
    /\ pc[t] = "rejected"
    /\ pc' = [pc EXCEPT ![t] = "idle"]
    /\ req' = [req EXCEPT ![t] = NoReq]
    /\ loc' = [loc EXCEPT ![t] = NoLoc]
    /\ UNCHANGED <<RobotState, lock, wheel, zsent, env, console, lastWriter, plusRun>>

\* ---------------------------------------------------------------- /config
ConfigHeading(S, r) ==
    IF r.hasHeading THEN [S EXCEPT !.forward_heading_deg = r.heading] ELSE S

ConfigActive_NoCheck(S, r) ==
    IF r.hasActive THEN [S EXCEPT !.active_camera = r.active] ELSE S

ConfigActive(S, r) ==
    IF r.hasActive /\ 0 <= r.active /\ r.active < Len(S.cameras)
    THEN [S EXCEPT !.active_camera = r.active] ELSE S

ConfigShow(S, r) ==
    IF r.hasShow THEN [S EXCEPT !.show_all_cameras = r.show] ELSE S

ConfigAdd(S, r) ==
    IF r.hasAdd /\ r.addUrl
    THEN [S EXCEPT !.cameras = Append(@, r.cam), !.active_camera = Len(S.cameras)]
    ELSE S

PopAt_Last(cameras, idx) == SubSeq(cameras, 1, Len(cameras) - 1)

\* cameras.pop(idx), idx counted from 0
PopAt(cameras, idx) ==
    [k \in 1..(Len(cameras) - 1) |-> IF k <= idx THEN cameras[k] ELSE cameras[k + 1]]

ConfigRemove_NoClamp(S, r) ==
    IF r.remove /\ Len(S.cameras) > 0
    THEN LET idx == Max2(0, Min2(Len(S.cameras) - 1, S.active_camera))
         IN  [S EXCEPT !.cameras = PopAt(@, idx), !.active_camera = idx]
    ELSE S

ConfigRemove(S, r) ==
    IF r.remove /\ Len(S.cameras) > 0
    THEN LET idx  == Max2(0, Min2(Len(S.cameras) - 1, S.active_camera))
             cameras == PopAt(S.cameras, idx)
         IN  [S EXCEPT !.cameras = cameras,
                       !.active_camera = Max2(0, Min2(Len(cameras) - 1, idx))]
    ELSE S

\* The patch is applied field by field; float() / int() of a value that is
\* no number raises where that field is read, after the fields before it
\* have been applied and before save_state.
ConfigBody(t) ==
    /\ pc[t] = "config"
    /\ LET r  == req[t]
           s1 == ConfigHeading(RobotState, r)
           s5 == ConfigRemove(ConfigAdd(ConfigShow(ConfigActive(s1, r), r), r), r)
           new == IF r.hasHeading /\ r.bad = "heading" THEN RobotState
                  ELSE IF r.hasActive /\ r.bad = "active" THEN s1
                  ELSE s5
           raised == \/ r.hasHeading /\ r.bad = "heading"
                     \/ r.hasActive /\ r.bad = "active"
       IN  /\ RobotState' = new
           /\ loc' = [loc EXCEPT ![t].dirty = @ \/ new # RobotState,
                                 ![t].res = IF raised THEN "500" ELSE "ok"]
           /\ pc' = [pc EXCEPT ![t] = IF raised THEN "raise" ELSE "save"]
           /\ lastWriter' = IF new # RobotState THEN t ELSE lastWriter
    /\ UNCHANGED <<lock, req, wheel, zsent, env, console, plusRun>>

\* ---------------------------------------------------------------- /state
StateBody(t) ==
    /\ pc[t] = "state"
    /\ pc' = [pc EXCEPT ![t] = "ret"]
    /\ loc' = [loc EXCEPT ![t].res = "ok"]
    /\ UNCHANGED <<RobotState, lock, req, wheel, zsent, env, console, lastWriter, plusRun>>

\* ---------------------------------------------------------------- strings
\* A Python str is the sequence of its code points; str < str compares them
\* lexicographically.
StrLess(a, b) ==
    \E k \in 1..(Len(a) + 1) :
        /\ k <= Len(b)
        /\ \A i \in 1..(k - 1) : a[i] = b[i]
        /\ k = Len(a) + 1 \/ a[k] < b[k]

\* str.lower() on ASCII: A..Z (65..90) become a..z.
Lower(a) == [i \in 1..Len(a) |-> IF a[i] >= 65 /\ a[i] <= 90 THEN a[i] + 32 ELSE a[i]]

\* The decimal digits of a host number below 100, as code points.
Digits(n) == IF n < 10 THEN <<48 + n>> ELSE <<48 + (n \div 10), 48 + (n % 10)>>

\* str(h) of the host of subnet 10.0.0.0/24 whose last number is n: "10.0.0.n"
IpStr(n) == <<49, 48, 46, 48, 46, 48, 46>> \o Digits(n)

\* ---------------------------------------------------------------- discover_robots
\* The hosts that answer a probe with a robot's /state, by last number of the
\* address, with the robot_name of the answer: "Bravo", "Alpha", "alpha",
\* "Zed"; host 7 answers with no robot.  Hosts are numbered in the order the
\* scan submits their probes.
HostIp == <<5, 9, 10, 7, 12>>

HostName ==
    <<(<<66, 114, 97, 118, 111>>), (<<65, 108, 112, 104, 97>>),
      (<<97, 108, 112, 104, 97>>), (<<>>), (<<90, 101, 100>>)>>

NHosts == 4

Hosts == 1..NHosts

\* The dict probe() returns for a robot's answer (the fields the sort reads).
PeerOf(h) == [ip |-> IpStr(HostIp[h]), robot_name |-> HostName[h]]

\* One submitted probe: st is "running", "done" (finished, not yet handed
\* out by as_completed) or "yielded"; res is "peer" for a dict, "none" for None.
NoProbe == [st |-> "running", res |-> ""]

\* discover_robots up to as_completed(futs): every probe submitted, `found`
\* empty, the stop event as server_browser made it.
DiscStart ==
    /\ probes = [h \in Hosts |-> NoProbe]
    /\ scan = "as_completed"
    /\ cur = 0
    /\ found = <<>>
    /\ stop_event = FALSE
    /\ scan_found = <<>>
    /\ lateAdds = 0
    /\ scan_done = FALSE

\* A pool worker finishes probe(ip, port): a dict when a robot answered in
\* time, None otherwise (no robot, timeout, any exception).
ProbeDone(h) ==
    /\ h \in DOMAIN probes
    /\ probes[h].st = "running"
    /\ \E r \in (IF HostName[h] = <<>> THEN {"none"} ELSE {"peer", "none"}) :
          probes' = [probes EXCEPT ![h] = [st |-> "done", res |-> r]]
    /\ UNCHANGED <<scan, cur, found, stop_event, scan_found, lateAdds, scan_done>>
    /\ UNCHANGED <<ctlVars, env, streamVars, kin, hudVars>>

\* server_browser sets scan_stop: a key or button, or DISCOVERY_TIMEOUT_S.
SetStop ==
    /\ scan \notin {"idle", "returned"}
    /\ ~stop_event
    /\ stop_event' = TRUE
    /\ UNCHANGED <<probes, scan, cur, found, scan_found, lateAdds, scan_done>>
    /\ UNCHANGED <<ctlVars, env, streamVars, kin, hudVars>>

\* Lines 479-481 of server_browser: DISCOVERY_TIMEOUT_S have passed and the
\* scan is not done: scan_stop is set and the scan is marked done.
BrowserTimeout ==
    /\ scan # "idle"
    /\ ~scan_done
    /\ stop_event' = TRUE
    /\ scan_done' = TRUE
    /\ UNCHANGED <<probes, scan, cur, found, scan_found, lateAdds>>
    /\ UNCHANGED <<ctlVars, env, streamVars, kin, hudVars>>

\* `for f in as_completed(futs)`: the next finished future, or the end of the
\* loop once every future has been handed out.
AsCompleted ==
    /\ scan = "as_completed"
    /\ \/ \E h \in Hosts :
             /\ probes[h].st = "done"
             /\ probes' = [probes EXCEPT ![h].st = "yielded"]
             /\ cur' = h
             /\ scan' = "is_set"
       \/ /\ \A h \in Hosts : probes[h].st = "yielded"
          /\ scan' = "exit"
          /\ UNCHANGED <<probes, cur>>
    /\ UNCHANGED <<found, stop_event, scan_found, lateAdds, scan_done>>
    /\ UNCHANGED <<ctlVars, env, streamVars, kin, hudVars>>

IsSet_Never ==
    /\ scan = "is_set"
    /\ scan' = "result"
    /\ UNCHANGED <<probes, cur, found, stop_event, scan_found, lateAdds, scan_done>>
    /\ UNCHANGED <<ctlVars, env, streamVars, kin, hudVars>>

\* `if stop_event.is_set(): break`
IsSet ==
    /\ scan = "is_set"
    /\ scan' = IF stop_event THEN "exit" ELSE "result"
    /\ UNCHANGED <<probes, cur, found, stop_event, scan_found, lateAdds, scan_done>>
    /\ UNCHANGED <<ctlVars, env, streamVars, kin, hudVars>>

\* `res = f.result(); if res: found.append(res)`
Result ==
    /\ scan = "result"
    /\ scan' = "as_completed"
    /\ IF probes[cur].res = "peer"
       THEN /\ found' = Append(found, PeerOf(cur))
            /\ lateAdds' = IF stop_event THEN lateAdds + 1 ELSE lateAdds
       ELSE UNCHANGED <<found, lateAdds>>
    /\ UNCHANGED <<probes, cur, stop_event, scan_found, scan_done>>
    /\ UNCHANGED <<ctlVars, env, streamVars, kin, hudVars>>

SortKey_IpFirst(d) == <<d.ip, Lower(d.robot_name)>>

\* key=lambda d: (d["robot_name"].lower(), d["ip"])
SortKey(d) == <<Lower(d.robot_name), d.ip>>

\* key(a) < key(b) for two tuples of two strings
KeyLess(a, b) ==
    \/ StrLess(SortKey(a)[1], SortKey(b)[1])
    \/ SortKey(a)[1] = SortKey(b)[1] /\ StrLess(SortKey(a)[2], SortKey(b)[2])

\* list.sort(key=...): stable, ascending.  x goes behind every entry of the
\* sorted list s whose key is not greater than its own.
RECURSIVE SortInsert(_, _)
SortInsert(s, x) ==
    IF s = <<>> THEN <<x>>
    ELSE IF KeyLess(x, s[Len(s)]) THEN Append(SortInsert(SubSeq(s, 1, Len(s) - 1), x), s[Len(s)])
    ELSE Append(s, x)

RECURSIVE Sorted(_)
Sorted(s) ==
    IF s = <<>> THEN <<>>
    ELSE SortInsert(Sorted(SubSeq(s, 1, Len(s) - 1)), s[Len(s)])

\* Leaving `with ThreadPoolExecutor(...)`: shutdown(wait=True) returns once
\* no probe is running; then found.sort(...) and return found, which
\* scan_worker stores in scan_data["found"] before its finally marks the
\* scan done.
ExitSortReturn ==
    /\ scan = "exit"
    /\ \A h \in Hosts : probes[h].st # "running"
    /\ found' = Sorted(found)
    /\ scan_found' = found'
    /\ scan' = "returned"
    /\ scan_done' = TRUE
    /\ UNCHANGED <<probes, cur, stop_event, lateAdds>>
    /\ UNCHANGED <<ctlVars, env, streamVars, kin, hudVars>>

\* ---------------------------------------------------------------- MJPEGStream._run
\* Bytes are numbers 0..255.  SOI is FF D8, EOI is FF D9.
SOI == <<255, 216>>
EOI == <<255, 217>>

\* Two minimal JPEGs, told apart by the byte between their markers.
Jpeg(n) == SOI \o <<n>> \o EOI

TwoJpegs == Jpeg(1) \o Jpeg(2)

\* The body one connection delivers.
Bodies == {TwoJpegs}

\* A stream joined in the middle of a frame: the tail of that frame with its
\* EOI, then two whole images.
StrayEoi == <<9>> \o EOI \o Jpeg(1) \o Jpeg(2)

\* A stream whose first image is damaged, between whole ones.
OneCorrupt == Jpeg(0) \o Jpeg(1)

WildBodies == {StrayEoi, OneCorrupt}

MaxFailures == 3
MaxCuts == 3
MaxSessions == 5
KeysHorizon == 160
LinkHorizon == 7500
PadHorizon == 51
CamsHorizon == 4000
ExitHorizon == 51

\* bytes.find(m) for a two-byte m: the lowest 0-based index where m starts
\* in b, -1 when it is nowhere.
Find(b, m) ==
    LET at == {i \in 1..(Len(b) - 1) : b[i] = m[1] /\ b[i + 1] = m[2]}
    IN  IF at = {} THEN -1 ELSE (CHOOSE i \in at : \A j \in at : i <= j) - 1

\* b[lo:hi] and b[lo:] of Python, 0-based, hi exclusive
Slice(b, lo, hi) == SubSeq(b, lo + 1, hi)
SliceFrom(b, lo) == SubSeq(b, lo + 1, Len(b))

\* start() has set _stop = False and started the thread, which stands at
\* `while not self._stop`.
StreamStart ==
    /\ stream = "loop"
    /\ stream_stop = FALSE
    /\ body = <<>>
    /\ buf = <<>>
    /\ jpgs = <<>>
    /\ failures = 0
    /\ frame = <<>>
    /\ frames = 0
    /\ last_frame_ts = 0
    /\ cuts = 0
    /\ slept = TRUE

\* stop(), called by the UI thread.
StreamStop ==
    /\ stream # "idle"
    /\ ~stream_stop
    /\ stream_stop' = TRUE
    /\ UNCHANGED <<stream, body, buf, jpgs, failures>>
    /\ UNCHANGED <<pub, slept>>
    /\ UNCHANGED <<ctlVars, env, discVars, kin, hudVars>>

LoopTest_NoStop ==
    /\ stream = "loop"
    /\ stream' = "connect"
    /\ UNCHANGED <<stream_stop, body, buf, jpgs, failures>>
    /\ UNCHANGED <<pub, slept>>
    /\ UNCHANGED <<ctlVars, env, discVars, kin, hudVars>>

LoopTest_GiveUp ==
    /\ stream = "loop"
    /\ stream' = IF stream_stop \/ failures = MaxFailures THEN "stopped" ELSE "connect"
    /\ UNCHANGED <<stream_stop, body, buf, jpgs, failures>>
    /\ UNCHANGED <<pub, slept>>
    /\ UNCHANGED <<ctlVars, env, discVars, kin, hudVars>>

\* `while not self._stop:` -- the thread ends when the flag is set.
LoopTest ==
    /\ stream = "loop"
    /\ stream' = IF stream_stop THEN "stopped" ELSE "connect"
    /\ UNCHANGED <<stream_stop, body, buf, jpgs, failures>>
    /\ UNCHANGED <<pub, slept>>
    /\ UNCHANGED <<ctlVars, env, discVars, kin, hudVars>>

\* The except branch: the failure is counted (history) and the thread goes
\* to time.sleep(0.5).
Fails == /\ stream' = "sleep"
         /\ failures' = Min2(failures + 1, MaxFailures)

\* requests.get(url, stream=True, timeout=3) and raise_for_status(): either
\* a response whose body is about to be read, with buf = b"", or an
\* exception (no connection, timeout, HTTP error status).
\* The response body is one of `bodies`; the model opens no further
\* connection once MaxCuts byte strings have been handed to Image.open.
ConnectWith(bodies) ==
    /\ stream = "connect"
    /\ \/ /\ cuts < MaxCuts
          /\ stream' = "read"
          /\ body' \in bodies
          /\ buf' = <<>>
          /\ jpgs' = <<>>
          /\ slept' = FALSE
          /\ UNCHANGED failures
       \/ /\ Fails
          /\ UNCHANGED <<body, buf, jpgs, slept>>
    /\ UNCHANGED <<stream_stop, pub>>
    /\ UNCHANGED <<ctlVars, env, discVars, kin, hudVars>>

Connect == ConnectWith(Bodies)

\* The same against a server whose stream is joined in the middle of a
\* frame, or that sends an image that does not decode.
ConnectAny == ConnectWith(WildBodies)

\* Image.open(io.BytesIO(jpg)).convert("RGB") returns an image: the byte
\* string is one of the images the camera encoded, whole and undamaged.
Decodes(jpg) == jpg \in {Jpeg(1), Jpeg(2)}

\* self.frames after the try block around the decode of jpg.
FramesAfter_Always(n, jpg) == n + 1

FramesAfter(n, jpg) == IF Decodes(jpg) THEN n + 1 ELSE n

\* The try block of lines 139-146 for the byte string jpg: a decoded image
\* replaces self.frame, stamps last_frame_ts and counts; an exception of
\* the decode is passed over.
Publish(jpg) ==
    /\ cuts' = cuts + 1
    /\ frames' = FramesAfter(frames, jpg)
    /\ IF Decodes(jpg)
       THEN /\ frame' = jpg
            /\ last_frame_ts' = cuts + 1
       ELSE UNCHANGED <<frame, last_frame_ts>>

\* One round of `for chunk in r.iter_content(...)`: the next k bytes of the
\* body arrive (k = 0: an empty chunk, skipped); with _stop set the loop is
\* left; otherwise the chunk joins buf and, when buf holds an SOI and behind
\* it an EOI, the bytes from the one to the other are cut out and handed to
\* Image.open (jpgs: the history of those byte strings).
NextChunk ==
    /\ stream = "read"
    /\ body # <<>>
    /\ \E k \in 0..Len(body) :
          LET chunk == SubSeq(body, 1, k)
              nb    == buf \o chunk
              a     == Find(nb, SOI)
              b     == Find(nb, EOI)
          IN  /\ body' = SubSeq(body, k + 1, Len(body))
              /\ IF stream_stop
                 THEN /\ stream' = "loop"
                      /\ UNCHANGED <<buf, jpgs, pub>>
                 ELSE /\ stream' = "read"
                      /\ IF k = 0
                         THEN UNCHANGED <<buf, jpgs, pub>>
                         ELSE IF a # -1 /\ b # -1 /\ b > a
                         THEN /\ jpgs' = Append(jpgs, Slice(nb, a, b + 2))
                              /\ buf' = SliceFrom(nb, b + 2)
                              /\ Publish(Slice(nb, a, b + 2))
                         ELSE /\ buf' = nb
                              /\ UNCHANGED <<jpgs, pub>>
    /\ UNCHANGED <<stream_stop, failures, slept>>
    /\ UNCHANGED <<ctlVars, env, discVars, kin, hudVars>>

\* The body is exhausted: iter_content ends, the `with` is left and the
\* thread is back at the loop test (no sleep).
ReadEnd ==
    /\ stream = "read"
    /\ body = <<>>
    /\ stream' = "loop"
    /\ UNCHANGED <<stream_stop, body, buf, jpgs, failures>>
    /\ UNCHANGED <<pub, slept>>
    /\ UNCHANGED <<ctlVars, env, discVars, kin, hudVars>>

\* A read fails (timeout, connection reset): the exception leaves the loop
\* and reaches `except Exception`.
ReadError ==
    /\ stream = "read"
    /\ Fails
    /\ UNCHANGED <<stream_stop, body, buf, jpgs>>
    /\ UNCHANGED <<pub, slept>>
    /\ UNCHANGED <<ctlVars, env, discVars, kin, hudVars>>

\* time.sleep(0.5) returns: back to the loop test.
Sleep ==
    /\ stream = "sleep"
    /\ stream' = "loop"
    /\ slept' = TRUE
    /\ UNCHANGED <<stream_stop, body, buf, jpgs, failures, pub>>
    /\ UNCHANGED <<ctlVars, env, discVars, kin, hudVars>>

\* ---------------------------------------------------------------- console main loop

CMD_REPEAT_HZ == 10
CMD_DEADZONE == 18
ROTATE_ONLY_THRESH == 35

\* `now - last_poll > 0.5`, in milliseconds
PollMs == 500

\* 1.0 / CMD_REPEAT_HZ, in milliseconds
RepeatMs == 1000 \div CMD_REPEAT_HZ

DirKeys == {"W", "S", "A", "D", "Q", "E"}

\* dz(x): the deadzone, on hundredths
Dz(x) == IF Abs(x) < CMD_DEADZONE THEN 0 ELSE x

\* The thresholds of the gamepad block read the other way round: a stick
\* exactly on a threshold already counts.
PadCmd_Loose(ax) ==
    LET lx      == Dz(ax[1])
        forward == -Dz(ax[2])
        r2      == IF Abs(ax[3]) > 0 THEN ax[3] ELSE 0
        r3      == IF Abs(ax[4]) > Abs(r2) THEN ax[4] ELSE r2
        r4      == IF Abs(ax[5]) > Abs(r3) THEN ax[5] ELSE r3
        rx      == Dz(r4)
    IN  IF Abs(rx) >= ROTATE_ONLY_THRESH /\ Abs(forward) <= 20
        THEN (IF rx > 0 THEN "E" ELSE "Q")
        ELSE IF forward >= 25
        THEN (IF lx <= -25 THEN "A" ELSE IF lx >= 25 THEN "D" ELSE "W")
        ELSE IF forward <= -25 THEN "S" ELSE "X"

\* The command the gamepad block derives from the axes 0..4 (ax[1..5]).
PadCmd(ax) ==
    LET lx      == Dz(ax[1])
        ly      == Dz(ax[2])
        forward == -ly
        turn    == lx
        r2      == IF Abs(ax[3]) > 0 THEN ax[3] ELSE 0
        r3      == IF Abs(ax[4]) > Abs(r2) THEN ax[4] ELSE r2
        r4      == IF Abs(ax[5]) > Abs(r3) THEN ax[5] ELSE r3
        rx      == Dz(r4)
    IN  IF Abs(rx) >= ROTATE_ONLY_THRESH /\ Abs(forward) < 20
        THEN (IF rx > 0 THEN "E" ELSE "Q")
        ELSE IF forward > 25
        THEN (IF turn < -25 THEN "A" ELSE IF turn > 25 THEN "D" ELSE "W")
        ELSE IF forward < -25 THEN "S" ELSE "X"

\* The test of maybe_send_cmd.
Due_RateLimited(force) == clk - last_cmd_sent >= RepeatMs

Due(force) == force \/ clk - last_cmd_sent >= RepeatMs

\* maybe_send_cmd(force) while held_cmd is h: robot_cmd posts h when the test
\* passes, and the time of the post is kept whether the post got through or
\* raised inside robot_cmd.
MaybeSendCmd(force, h) ==
    IF Due(force)
    THEN /\ sent' = Append(sent, h)
         /\ gap' = clk - last_cmd_sent
         /\ acked' \in BOOLEAN
         /\ last_cmd_sent' = clk
    ELSE UNCHANGED <<sent, gap, acked, last_cmd_sent>>

\* stop_streams(ids) on the streams made so far: stop() sets _stop.
Stopped(m, ids) ==
    [i \in 1..Len(m) |-> IF \E k \in 1..Len(ids) : ids[k] = i
                         THEN [m[i] EXCEPT !.stop = TRUE]
                         ELSE m[i]]

\* active_cam after start_all_cameras(cameras)
ActiveAfter_Keep(cameras) == active_cam

ActiveAfter(cameras) ==
    IF cameras = <<>> THEN active_cam
    ELSE Max2(0, Min2(Len(cameras) - 1, active_cam))

\* start_all_cameras(cameras): the present streams are stopped, and, behind
\* the clamp of active_cam, one new MJPEGStream per camera is created and
\* started.
StartAllCameras(cameras) ==
    /\ active_cam' = ActiveAfter(cameras)
    /\ made' = Stopped(made, cam_streams)
                 \o [k \in 1..Len(cameras) |-> [url |-> cameras[k], stop |-> FALSE]]
    /\ cam_streams' = [k \in 1..Len(cameras) |-> Len(made) + k]

\* Lines 671-686: the first fetch of /state, which may fail, and
\* start_all_cameras on what it gave.
HudEnter(lats, reports) ==
    /\ hud = "enter"
    /\ hud' = "tick"
    /\ \E lat \in lats :
          /\ clk' = clk + lat
          /\ \/ \E r \in reports :
                   /\ last_state_ok_ts' = clk'
                   /\ cams' = r
                   /\ StartAllCameras(r)
             \/ /\ UNCHANGED <<last_state_ok_ts, cams>>
                /\ StartAllCameras(<<>>)
    /\ UNCHANGED <<now, last_poll, last_cmd_sent, held_cmd, joystick, axes,
                   down, ev, sent, gap, acked, polled, since, link_str>>
    /\ UNCHANGED <<ctlVars, env, discVars, streamVars, kin>>

\* clock.tick(60) and `now = time.time()`: d milliseconds after the previous
\* iteration; the stick of an attached gamepad is wherever the hand put it.
HudTick(ticks, sticks, horizon) ==
    /\ hud = "tick"
    /\ hud' = "poll"
    /\ \E d \in ticks :
          /\ clk + d <= T0 + horizon
          /\ clk' = clk + d
    /\ now' = clk'
    /\ axes' \in (IF joystick THEN sticks ELSE {Centre})
    /\ sent' = <<>>
    /\ ev' = NoEv
    /\ polled' = "skip"
    /\ since' = IF axes' = Centre THEN since ELSE NoHold
    /\ UNCHANGED <<last_poll, last_state_ok_ts, last_cmd_sent, held_cmd,
                   joystick, down, gap, acked, cams, cam_streams, active_cam, made, link_str>>
    /\ UNCHANGED <<ctlVars, env, discVars, streamVars, kin>>

\* The test of line 753 on the reported list.
CamsChanged_Urls(newcams) == newcams # cams

CamsChanged(newcams) == Len(newcams) # Len(cams)

\* Lines 741-763: the poll of /state, due every half second; it takes lat
\* milliseconds and returns a state with a camera list, or raises.
HudPoll(lats, reports) ==
    /\ hud = "poll"
    /\ hud' = "events"
    /\ IF now - last_poll > PollMs
       THEN /\ last_poll' = now
            /\ \E lat \in lats :
                  /\ clk' = clk + lat
                  /\ \/ \E newcams \in reports :
                           /\ polled' = "ok"
                           /\ last_state_ok_ts' = clk'
                           /\ cams' = newcams
                           /\ IF CamsChanged(newcams)
                              THEN /\ Len(made) + Len(newcams) <= MaxSessions
                                   /\ StartAllCameras(newcams)
                              ELSE UNCHANGED <<cam_streams, active_cam, made>>
                     \/ /\ polled' = "fail"
                        /\ UNCHANGED <<last_state_ok_ts, cams, cam_streams, active_cam, made>>
       ELSE UNCHANGED <<last_poll, clk, polled, last_state_ok_ts, cams,
                        cam_streams, active_cam, made>>
    /\ UNCHANGED <<now, last_cmd_sent, held_cmd, joystick, axes, down, ev,
                   sent, gap, acked, since, link_str>>
    /\ UNCHANGED <<ctlVars, env, discVars, streamVars, kin>>

\* `for e in pygame.event.get()` with no event or one: KEYDOWN of a
\* directional key of `keys` that was up, or KEYUP of one that was down.
HudEvents(keys) ==
    /\ hud = "events"
    /\ hud' = "pad"
    /\ \/ /\ ev' = NoEv
          /\ UNCHANGED <<down, held_cmd, sent, gap, acked, last_cmd_sent, since>>
       \/ \E k \in keys \ down :
             /\ ev' = [type |-> "down", key |-> k]
             /\ down' = down \cup {k}
             /\ since' = IF down = {} /\ axes = Centre
                         THEN [key |-> k, at |-> clk]
                         ELSE NoHold
             /\ held_cmd' = k
             /\ MaybeSendCmd(TRUE, k)
       \/ \E k \in down :
             /\ ev' = [type |-> "up", key |-> k]
             /\ down' = down \ {k}
             /\ since' = NoHold
             /\ held_cmd' = "X"
             /\ MaybeSendCmd(TRUE, "X")
    /\ UNCHANGED <<clk, now, last_poll, last_state_ok_ts, joystick, axes,
                   polled, cams, cam_streams, active_cam, made, link_str>>
    /\ UNCHANGED <<ctlVars, env, discVars, streamVars, kin>>

\* safe_cam_set(idx)
SafeCamSet(idx) ==
    IF cams # <<>> THEN Max2(0, Min2(Len(cams) - 1, idx)) ELSE active_cam

\* One camera-select event: cam_next (gamepad button 7, the NEXT tap, a
\* swipe), cam_prev, or a digit key 1..3 (idx 0..2).
HudCamEvent ==
    /\ hud = "events"
    /\ hud' = "pad"
    /\ \E e \in {"next", "prev", "1", "2", "3"} :
          /\ ev' = [type |-> "cam", key |-> e]
          /\ active_cam' =
                IF cams = <<>> THEN active_cam
                ELSE CASE e = "next" -> SafeCamSet((active_cam + 1) % Len(cams))
                       [] e = "prev" -> SafeCamSet((active_cam - 1) % Len(cams))
                       [] OTHER ->
                            LET idx == CASE e = "1" -> 0 [] e = "2" -> 1 [] OTHER -> 2
                            IN  IF idx < Len(cams) THEN SafeCamSet(idx)
                                ELSE active_cam
    /\ UNCHANGED <<clk, now, last_poll, last_state_ok_ts, last_cmd_sent,
                   held_cmd, joystick, axes, down, sent, gap, acked, polled,
                   since, cams, cam_streams, made, link_str>>
    /\ UNCHANGED <<ctlVars, env, discVars, streamVars, kin>>

\* The event that ends the session: QUIT, ESC, a BACK key, gamepad button 1
\* or a tap on BACK; each calls stop_streams(cam_streams) and returns.
Exits == {"QUIT", "ESC", "BACK_KEY", "BUTTON1", "BACK_TAP"}

HudExit ==
    /\ hud = "events"
    /\ hud' = "closed"
    /\ \E how \in (IF joystick THEN Exits ELSE Exits \ {"BUTTON1"}) :
          ev' = [type |-> "exit", key |-> how]
    /\ made' = Stopped(made, cam_streams)
    /\ UNCHANGED <<clk, now, last_poll, last_state_ok_ts, last_cmd_sent,
                   held_cmd, joystick, axes, down, sent, gap, acked, polled,
                   since, cams, cam_streams, active_cam, link_str>>
    /\ UNCHANGED <<ctlVars, env, discVars, streamVars, kin>>

\* The gamepad block with a heartbeat that does not leave X out.
HudPad_BeatsX ==
    /\ hud = "pad"
    /\ hud' = "draw"
    /\ IF joystick
       THEN LET cmd == PadCmd(axes)
            IN  IF cmd # held_cmd
                THEN /\ held_cmd' = cmd
                     /\ MaybeSendCmd(TRUE, cmd)
                ELSE /\ MaybeSendCmd(FALSE, held_cmd)
                     /\ UNCHANGED held_cmd
       ELSE UNCHANGED <<held_cmd, sent, gap, acked, last_cmd_sent>>
    /\ UNCHANGED <<clk, now, last_poll, last_state_ok_ts, joystick, axes,
                   down, ev, polled, since, cams, cam_streams, active_cam, made, link_str>>
    /\ UNCHANGED <<ctlVars, env, discVars, streamVars, kin>>

\* Lines 898-936: gamepad driving, only with a gamepad.
HudPad ==
    /\ hud = "pad"
    /\ hud' = "draw"
    /\ IF joystick
       THEN LET cmd == PadCmd(axes)
            IN  IF cmd # held_cmd
                THEN /\ held_cmd' = cmd
                     /\ MaybeSendCmd(TRUE, cmd)
                ELSE IF held_cmd # "X"
                THEN /\ MaybeSendCmd(FALSE, held_cmd)
                     /\ UNCHANGED held_cmd
                ELSE UNCHANGED <<held_cmd, sent, gap, acked, last_cmd_sent>>
       ELSE UNCHANGED <<held_cmd, sent, gap, acked, last_cmd_sent>>
    /\ UNCHANGED <<clk, now, last_poll, last_state_ok_ts, joystick, axes,
                   down, ev, polled, since, cams, cam_streams, active_cam, made, link_str>>
    /\ UNCHANGED <<ctlVars, env, discVars, streamVars, kin>>

\* state_age of line 1013, in milliseconds.
StateAge_SincePoll == IF last_poll # 0 THEN clk - last_poll ELSE 9999000

StateAge == IF last_state_ok_ts # 0 THEN clk - last_state_ok_ts ELSE 9999000

\* link_str of line 1016
LinkStr(age) ==
    IF age < 2000 THEN "OK" ELSE IF age < 6000 THEN "STALE" ELSE "DOWN"

\* The drawing of the iteration, as far as the link tier goes.
HudDraw ==
    /\ hud = "draw"
    /\ hud' = "tick"
    /\ link_str' = LinkStr(StateAge)
    /\ UNCHANGED <<clk, now, last_poll, last_state_ok_ts, last_cmd_sent,
                   held_cmd, joystick, axes, down, ev, sent, gap, acked, polled,
                   since, cams, cam_streams, active_cam, made>>
    /\ UNCHANGED <<ctlVars, env, discVars, streamVars, kin>>

\* ---------------------------------------------------------------- kinematics on its own
KinResult_StateHeading(vx, vy, omega, heading_deg) ==
    kinematics(vx, vy, omega, RobotState.forward_heading_deg)

\* What a call kinematics(vx, vy, omega, heading_deg) returns: the function
\* reads its four parameters and the module constants, nothing else.
KinResult(vx, vy, omega, heading_deg) == kinematics(vx, vy, omega, heading_deg)

\* One call of kinematics with the arguments a = <<vx, vy, omega, heading>>.
KinCall(a) ==
    /\ kin' = [called |-> TRUE, args |-> a,
               out |-> KinResult(a[1], a[2], a[3], a[4]),
               repeat |-> kin.called /\ a = kin.args,
               prevOut |-> kin.out]
    /\ UNCHANGED <<ctlVars, env, discVars, streamVars, hudVars>>

\* ---------------------------------------------------------------- inputs
\* What sms_sts() may offer: a speed-write method, a position-write method.
AllCaps   == [speed : BOOLEAN, pos : BOOLEAN]
FullCaps  == {[speed |-> TRUE, pos |-> TRUE]}
SpeedCaps == {[speed |-> TRUE, pos |-> TRUE], [speed |-> FALSE, pos |-> TRUE]}
PosCaps   == {[speed |-> TRUE, pos |-> TRUE], [speed |-> TRUE, pos |-> FALSE]}
EdgeCaps  == {[speed |-> TRUE, pos |-> TRUE], [speed |-> FALSE, pos |-> FALSE]}

\* Persisted snapshots load_state may find (robot_config.json), beside none.
SpeedDisks == {NoFile, [speed |-> 0], [speed |-> 2950], [speed |-> 3050], [speed |-> -50]}

ZDisks ==
    {NoFile,
     [z_lift |-> [pos |-> 5000]],
     [z_lift |-> [pos |-> 1050, min |-> 1000, max |-> 1100, step |-> 70, home |-> 5000]],
     [z_lift |-> [pos |-> 2000, min |-> 3000, max |-> 1200]]}

DriveDisks ==
    {NoFile, [speed |-> 100], [speed |-> 3000],
     [speed |-> 3000, forward_heading_deg |-> 0],
     [speed |-> 0, forward_heading_deg |-> 15]}

SpeedReqs == {CmdReq("+"), CmdReq("="), CmdReq("-")}

ZReqs ==
    {CmdReq(c) : c \in {"Z+", "Z-", "Z0", "ZMAX", "ZMIN"}}
    \cup {ZliftReq("pos", 99999), ZliftReq("pos", 0), ZliftReq("pos", 2000),
          ZliftReq("delta", 500), ZliftReq("delta", -500), ZliftReq("none", 0),
          [ZliftReq("pos", 0) EXCEPT !.bad = "pos"],
          [ZliftReq("pos", 1500) EXCEPT !.hasSpeed = TRUE, !.spd = 300]}
    \cup {ZliftPreset(p) : p \in {"home", "min", "max", "bogus", " MAX"}}

BadFloatReq == [DriveReq(0, 0, 0) EXCEPT !.bad = "float"]

DriveReqs ==
    {CmdReq(c) : c \in DriveCodes \cup {"", "J", "w"}}
    \cup {DriveReq(0, 0, 0), DriveReq(1, 1, 0), DriveReq(1, 0, 0), DriveReq(0, 0, 1),
          DriveReq(0, 0, -1), DriveReq(250, -100, 50), DriveReq(-50, 0, 0)}
    \cup {BadFloatReq}

PersistReqs ==
    {CmdReq(c) : c \in {"+", "-", "ZMAX"}}
    \cup {ZliftPreset("min"),
          [ConfigReq EXCEPT !.hasHeading = TRUE, !.heading = 0, !.hasActive = TRUE,
                            !.bad = "active"],
          [ConfigReq EXCEPT !.hasActive = TRUE, !.active = 1]}

\* /config patches on the camera list: set the active camera (in range, out
\* of range, beside other fields), add a camera (with and without a url),
\* remove the active camera, and combinations within one patch.
AddCam(c) == [ConfigReq EXCEPT !.hasAdd = TRUE, !.addUrl = TRUE, !.cam = c]

ConfigReqs ==
    {[ConfigReq EXCEPT !.hasActive = TRUE, !.active = a] : a \in {-1, 1, 5}}
    \cup {[ConfigReq EXCEPT !.hasActive = TRUE, !.active = 5, !.hasHeading = TRUE,
                            !.heading = 15, !.hasShow = TRUE, !.show = FALSE],
          AddCam(7),
          [ConfigReq EXCEPT !.hasAdd = TRUE],
          [AddCam(8) EXCEPT !.hasActive = TRUE, !.active = 3],
          [ConfigReq EXCEPT !.remove = TRUE],
          [ConfigReq EXCEPT !.remove = TRUE, !.hasActive = TRUE, !.active = 1],
          [AddCam(8) EXCEPT !.remove = TRUE]}

\* Arguments for kinematics (velocities in milli-units, heading in degrees)
\* and the /config patches that change RobotState between two calls.
KinArgs ==
    {<<v[1], v[2], v[3], h>> :
        v \in {<<0, 0, 0>>, <<-300000, 600000, 0>>, <<0, 600000, 420000>>,
               <<0, 0, -420000>>},
        h \in {-20, 0, 15}}

KinReqs == {[ConfigReq EXCEPT !.hasHeading = TRUE, !.heading = 0]}

Requests ==
    {CmdReq(c) : c \in {"-", "W", "X", "ZMAX", "J"}}
    \cup {DriveReq(0, 0, 0), BadFloatReq, ZliftPreset("home"),
          [ConfigReq EXCEPT !.hasHeading = TRUE, !.heading = 0, !.hasActive = TRUE,
                            !.bad = "active"],
          StateReq}

\* ---------------------------------------------------------------- specifications
\* The whole controller: every handler, on NThreads request threads.
Init == InitWith({NoFile}, EdgeCaps)

Next ==
    \E t \in Threads :
        \/ Arrive(t)
        \/ \E r \in Requests : Acquire(t, r)
        \/ \E r \in Requests : DriveBadFloats(t, r)
        \/ Respond(t)
        \/ CmdSpeed(t)
        \/ CmdZ(t)
        \/ CmdDrive(t)
        \/ CmdUnknown(t)
        \/ DriveBody(t)
        \/ ZliftBody(t)
        \/ ConfigBody(t)
        \/ StateBody(t)
        \/ ServoWrite(t)
        \/ WheelWrite(t)
        \/ StopWrite(t)
        \/ SaveState(t)
        \/ Release(t)

Spec == Init /\ [][Next]_vars

\* The speed commands of /cmd, from every persisted speed.
InitSpeed == InitWith(SpeedDisks, FullCaps)

NextSpeed ==
    \E t \in Threads :
        \/ Arrive(t)
        \/ \E r \in SpeedReqs : Acquire(t, r)
        \/ CmdSpeed(t)
        \/ SaveState(t)
        \/ Release(t)

SpecSpeed == InitSpeed /\ [][NextSpeed]_vars

\* The Z-lift: the Z codes of /cmd and /zlift.
InitZ == InitWith(ZDisks, PosCaps)

NextZ ==
    \E t \in Threads :
        \/ Arrive(t)
        \/ \E r \in ZReqs : Acquire(t, r)
        \/ CmdZ(t)
        \/ ZliftBody(t)
        \/ ServoWrite(t)
        \/ SaveState(t)
        \/ Release(t)

SpecZ == InitZ /\ [][NextZ]_vars

\* Driving: the drive codes of /cmd, unknown codes, and /drive.
InitDrive == InitWith(DriveDisks, SpeedCaps)

NextDrive ==
    \E t \in Threads :
        \/ Arrive(t)
        \/ \E r \in DriveReqs : Acquire(t, r)
        \/ \E r \in DriveReqs : DriveBadFloats(t, r)
        \/ Respond(t)
        \/ CmdDrive(t)
        \/ CmdUnknown(t)
        \/ DriveBody(t)
        \/ WheelWrite(t)
        \/ StopWrite(t)
        \/ Release(t)

SpecDrive == InitDrive /\ [][NextDrive]_vars

\* The requests that change RobotState: speed, Z-lift, /config.
NextPersist ==
    \E t \in Threads :
        \/ Arrive(t)
        \/ \E r \in PersistReqs : Acquire(t, r)
        \/ CmdSpeed(t)
        \/ CmdZ(t)
        \/ ZliftBody(t)
        \/ ConfigBody(t)
        \/ ServoWrite(t)
        \/ SaveState(t)
        \/ Release(t)

InitPersist == InitWith({NoFile}, PosCaps)

SpecPersist == InitPersist /\ [][NextPersist]_vars

\* /config on the camera list.
InitConfig == InitWith({NoFile}, FullCaps)

NextConfig ==
    \E t \in Threads :
        \/ Arrive(t)
        \/ \E r \in ConfigReqs : Acquire(t, r)
        \/ ConfigBody(t)
        \/ SaveState(t)
        \/ Release(t)

SpecConfig == InitConfig /\ [][NextConfig]_vars

\* The Z-lift on a server started with either Z_LIFT_DIR, with the default
\* range and with a range robot_config.json has narrowed.
ZDirDisks ==
    {NoFile,
     [z_lift |-> [pos |-> 1050, min |-> 1000, max |-> 1100, home |-> 1050]]}

ZDirReqs ==
    {CmdReq(c) : c \in {"Z+", "Z0", "ZMAX", "ZMIN"}}
    \cup {ZliftReq("pos", 99999), ZliftReq("pos", 1500), ZliftReq("delta", -500)}

InitZDir == InitDir(ZDirDisks, FullCaps, {1, -1})

NextZDir ==
    \E t \in Threads :
        \/ Arrive(t)
        \/ \E r \in ZDirReqs : Acquire(t, r)
        \/ CmdZ(t)
        \/ ZliftBody(t)
        \/ ServoWrite(t)
        \/ SaveState(t)
        \/ Release(t)

SpecZDir == InitZDir /\ [][NextZDir]_vars

\* kinematics called with drawn arguments while /config requests change
\* RobotState.
InitKin == InitWith({NoFile}, FullCaps)

NextKin ==
    \/ \E a \in KinArgs : KinCall(a)
    \/ \E t \in Threads :
          \/ Arrive(t)
          \/ \E r \in KinReqs : Acquire(t, r)
          \/ ConfigBody(t)
          \/ SaveState(t)
          \/ Release(t)

SpecKin == InitKin /\ [][NextKin]_vars

\* One scan of the console: discover_robots on the scan thread, the pool
\* workers, and server_browser setting the stop event.
InitDisc ==
    /\ InitCtl({NoFile}, FullCaps, {Z_LIFT_DIR})
    /\ DiscStart
    /\ StreamIdle
    /\ KinIdle
    /\ HudIdle

NextDisc ==
    \/ \E h \in Hosts : ProbeDone(h)
    \/ SetStop
    \/ AsCompleted
    \/ IsSet
    \/ Result
    \/ ExitSortReturn

SpecDisc == InitDisc /\ [][NextDisc]_vars

\* One stream task of the console, and the UI thread calling stop().
InitStream ==
    /\ InitCtl({NoFile}, FullCaps, {Z_LIFT_DIR})
    /\ DiscIdle
    /\ StreamStart
    /\ KinIdle
    /\ HudIdle

StreamStep ==
    \/ LoopTest
    \/ Connect
    \/ NextChunk
    \/ ReadEnd
    \/ ReadError
    \/ Sleep

NextStream ==
    \/ StreamStep
    \/ StreamStop

SpecStream == InitStream /\ [][NextStream]_vars

\* The stream thread is scheduled: a step it can take (its sleep returning,
\* its loop test, a connect or read that requests' timeout=3 bounds) is taken.
SpecStreamFair == SpecStream /\ WF_vars(StreamStep)

\* The stream thread against a server that is joined mid-frame or sends a
\* damaged image.
NextStreamAny ==
    \/ LoopTest
    \/ ConnectAny
    \/ NextChunk
    \/ ReadEnd
    \/ ReadError
    \/ Sleep
    \/ StreamStop

SpecStreamAny == InitStream /\ [][NextStreamAny]_vars

InitHud ==
    /\ InitCtl({NoFile}, FullCaps, {Z_LIFT_DIR})
    /\ DiscIdle
    /\ StreamIdle
    /\ KinIdle
    /\ HudStart

\* Frame times of a 60 Hz loop, and of one held up by drawing.
FineTicks == {17, 34}

Keys == {"W", "A"}

\* The stick at rest and pushed forward.
Sticks == {Centre, <<0, -100, 0, 0, 0>>}

\* The console at the keyboard, over the first KeysHorizon milliseconds.
NextKeys ==
    \/ HudEnter({0}, {<<1>>})
    \/ HudTick(FineTicks, Sticks, KeysHorizon)
    \/ HudPoll({0}, {<<1>>})
    \/ HudEvents(Keys)
    \/ HudPad
    \/ HudDraw

SpecKeys == InitHud /\ [][NextKeys]_vars

CoarseTicks == {500, 1500}

Lats == {0, 500}

\* Camera lists a robot reports: none, one, two, and two others.
Reports == {<<>>, <<1>>, <<1, 2>>, <<3, 2>>}

\* The console's telemetry over the first LinkHorizon milliseconds, nobody
\* at the controls.
NextLink ==
    \/ HudEnter(Lats, Reports)
    \/ HudTick(CoarseTicks, {Centre}, LinkHorizon)
    \/ HudPoll(Lats, Reports)
    \/ HudEvents({})
    \/ HudPad
    \/ HudDraw

SpecLink == InitHud /\ [][NextLink]_vars

\* Stick positions on and about every threshold of the gamepad block:
\* axis 0 (turn), axis 1 (forward, negated), and the rotation candidates.
PadSticks ==
    {<<lx, ly, r2, r3, 0>> :
        lx \in {-26, -25, 0, 26},
        ly \in {-26, -25, -20, -19, -17, 0, 18, 25, 26},
        r2 \in {0, 34, 35, -35},
        r3 \in {0, -40}}

\* The console at the gamepad, over the first PadHorizon milliseconds.
NextPad ==
    \/ HudEnter({0}, {<<1>>})
    \/ HudTick({17}, PadSticks, PadHorizon)
    \/ HudPoll({0}, {<<1>>})
    \/ HudEvents({})
    \/ HudPad
    \/ HudDraw

SpecPad == InitHud /\ [][NextPad]_vars

\* /zlift with a speed override, with the override 0 and without one, and a
\* Z code of /cmd.
ZSpeedReqs ==
    {[ZliftReq("pos", 1500) EXCEPT !.hasSpeed = TRUE, !.spd = 300],
     [ZliftReq("pos", 1600) EXCEPT !.hasSpeed = TRUE, !.spd = 0],
     ZliftReq("pos", 1700),
     [ZliftPreset("max") EXCEPT !.hasSpeed = TRUE, !.spd = 0],
     CmdReq("Z+")}

InitZSpeed == InitWith({NoFile}, PosCaps)

NextZSpeed ==
    \E t \in Threads :
        \/ Arrive(t)
        \/ \E r \in ZSpeedReqs : Acquire(t, r)
        \/ CmdZ(t)
        \/ ZliftBody(t)
        \/ ServoWrite(t)
        \/ SaveState(t)
        \/ Release(t)

SpecZSpeed == InitZSpeed /\ [][NextZSpeed]_vars

\* A robot_config.json whose z_lift has a home of its own, inside the range,
\* beside the default and a narrow range.
ZHomeDisks ==
    {NoFile,
     [z_lift |-> [pos |-> 2000, home |-> 1500]],
     [z_lift |-> [pos |-> 1300, min |-> 1250, max |-> 1900, home |-> 1800]]}

ZHomeReqs ==
    {CmdReq(c) : c \in {"Z0", "ZHOME", "ZMAX", "ZMIN"}}
    \cup {ZliftPreset(p) : p \in {"home", "min", "max"}}

InitZHome == InitWith(ZHomeDisks, PosCaps)

NextZHome ==
    \E t \in Threads :
        \/ Arrive(t)
        \/ \E r \in ZHomeReqs : Acquire(t, r)
        \/ CmdZ(t)
        \/ ZliftBody(t)
        \/ ServoWrite(t)
        \/ SaveState(t)
        \/ Release(t)

SpecZHome == InitZHome /\ [][NextZHome]_vars

\* The server browser left alone: the scan, and the browser's timeout.
NextBrowser ==
    \/ \E h \in Hosts : ProbeDone(h)
    \/ BrowserTimeout
    \/ AsCompleted
    \/ IsSet
    \/ Result
    \/ ExitSortReturn

SpecBrowser == InitDisc /\ [][NextBrowser]_vars

\* The console at the keyboard until the session is left.
NextExit ==
    \/ HudEnter({0}, {<<1, 2>>})
    \/ HudTick({17}, Sticks, ExitHorizon)
    \/ HudPoll({0}, {<<1, 2>>})
    \/ HudEvents({"W"})
    \/ HudExit
    \/ HudPad
    \/ HudDraw

SpecExit == InitHud /\ [][NextExit]_vars

\* The console's camera list and camera selection over the first
\* CamsHorizon milliseconds: every poll may fail or report any list, and
\* every frame may carry a camera-select input.
NextCams ==
    \/ HudEnter({0}, Reports)
    \/ HudTick(CoarseTicks, {Centre}, CamsHorizon)
    \/ HudPoll({0}, Reports)
    \/ HudEvents({})
    \/ HudCamEvent
    \/ HudPad
    \/ HudDraw

SpecCams == InitHud /\ [][NextCams]_vars

\* ================================================================ claims
SpeedInRange(s) == MIN_SPEED <= s /\ s <= MAX_SPEED

\* C1: at most one request thread is inside a lock-guarded section at a time
\* and it holds the lock; a thread that has written some but not all of its
\* three wheel speeds is the thread of the latest write to the bus or to
\* RobotState, so no other request's write falls between its writes.
C1_Serialized ==
    /\ Cardinality({t \in Threads : InCS(t)}) <= 1
    /\ \A t \in Threads : InCS(t) => lock
    /\ \A t \in Threads :
          (pc[t] \in {"wheel", "stop"} /\ loc[t].i > 1 /\ busCaps.speed)
             => lastWriter = t

\* A drive command has written two of its wheels while the other thread's
\* request waits at the lock.
C1_Witness ==
    \E t, u \in Threads :
        /\ t # u
        /\ pc[t] = "wheel" /\ loc[t].i = 3 /\ wheel[1] # 0 /\ lastWriter = t
        /\ pc[u] = "wait"

\* C2: a `+` or `-` command takes a speed within [MIN_SPEED, MAX_SPEED] to a
\* speed within it; `+` at MAX_SPEED leaves MAX_SPEED and `-` at MIN_SPEED
\* leaves MIN_SPEED.
C2_SpeedSaturates ==
    [][\A t \in Threads :
          (pc[t] = "cmd" /\ pc'[t] = "save" /\ SpeedInRange(RobotState.speed))
             => /\ SpeedInRange(RobotState'.speed)
                /\ (IsPlus(req[t].c) /\ RobotState.speed = MAX_SPEED)
                      => RobotState'.speed = MAX_SPEED
                /\ (IsMinus(req[t].c) /\ RobotState.speed = MIN_SPEED)
                      => RobotState'.speed = MIN_SPEED]_vars

\* A `+` has been applied at MAX_SPEED (the 25th `+` from 600) and the speed
\* is MAX_SPEED.
C2_Witness ==
    \E t \in Threads :
        pc[t] = "save" /\ IsPlus(req[t].c) /\ plusRun = 25 /\ RobotState.speed = MAX_SPEED

\* C3 as stated: from speed 600, one `+` gives 700 and seven more give 3000.
C3_Original ==
    /\ plusRun = 1 => RobotState.speed = 700
    /\ plusRun = 8 => RobotState.speed = 3000

\* C3 amended: from speed 600, one `+` gives 700 and seven more give 1400;
\* the 24th `+` gives 3000 and every later `+` leaves 3000 (never 3100).
C3_PlusFrom600 ==
    /\ plusRun = 1 => RobotState.speed = 700
    /\ plusRun = 8 => RobotState.speed = 1400
    /\ plusRun >= 24 => RobotState.speed = 3000
    /\ (plusRun >= 0 /\ plusRun < 24) => RobotState.speed = 600 + 100 * plusRun

\* Eight `+` have been applied to 600.
C3_Witness == plusRun = 8 /\ RobotState.speed = 1400

\* C4: in every reachable state, the one load_state builds included, the
\* speed is within [MIN_SPEED, MAX_SPEED].
C4_SpeedBounded == SpeedInRange(RobotState.speed)

\* C5: with min <= max, zlift_move_to stores and returns a position within
\* [min, max] (pos 99999 in [1200, 3000] gives 3000), and once any Z command
\* or /zlift request has moved the axis (the only writes of this
\* specification) the position is within [min, max] in every state.
ZInRange == /\ RobotState.z_lift.min <= RobotState.z_lift.pos
            /\ RobotState.z_lift.pos <= RobotState.z_lift.max

C5_ZClamped ==
    /\ \A t \in Threads :
          (pc[t] \in {"zwrite", "save"} /\ RobotState.z_lift.min <= RobotState.z_lift.max)
             => /\ ZInRange
                /\ loc[t].zpos = RobotState.z_lift.pos
                /\ (req[t].form = "pos" /\ req[t].val = 99999
                    /\ RobotState.z_lift.min = 1200 /\ RobotState.z_lift.max = 3000)
                      => RobotState.z_lift.pos = 3000
    /\ (lastWriter # 0 /\ RobotState.z_lift.min <= RobotState.z_lift.max) => ZInRange

\* pos = 99999 has been clamped to max = 3000 and stored.
C5_Witness ==
    \E t \in Threads :
        /\ pc[t] = "zwrite" /\ req[t].form = "pos" /\ req[t].val = 99999
        /\ RobotState.z_lift.min = 1200 /\ RobotState.z_lift.pos = 3000

\* C6: a /cmd whose code is not a recognised one answers "unknown cmd",
\* changes neither RobotState nor the bus, calls no save_state, and leaves
\* the lock free and the thread ready for the next request.
C6_Codes ==
    {"W", "S", "A", "D", "Q", "E", "X", "+", "=", "-",
     "Z+", "ZU", "ZUP", "Z-", "ZD", "ZDN", "Z0", "ZHOME", "ZMAX", "ZMIN"}

C6_UnknownCmd ==
    [][\A t \in Threads :
          (req[t].kind = "cmd" /\ req[t].c \notin C6_Codes
           /\ pc[t] \in {"cmd", "ret"} /\ pc'[t] # pc[t])
             => /\ UNCHANGED <<RobotState, wheel, zsent>>
                /\ loc'[t].saved = "none"
                /\ pc[t] = "cmd" => (pc'[t] = "ret" /\ loc'[t].res = "unknown cmd")
                /\ pc[t] = "ret" => (loc[t].res = "unknown cmd" /\ pc'[t] = "idle"
                                     /\ lock' = FALSE)]_vars

\* The unknown code "J" has been answered with the error.
C6_Witness ==
    \E t \in Threads :
        pc[t] = "ret" /\ req[t].c = "J" /\ loc[t].res = "unknown cmd"

\* C7: with s the speed and tt = round(0.7 * s), the drive codes call the
\* kinematics with W (0,s,0), S (0,-s,0), A (0,s,tt), D (0,s,-tt), Q (0,0,tt),
\* E (0,0,-tt), X (0,0,0) (held in milli), and write its result.
C7_DiscreteArgs ==
    \A t \in Threads :
        (pc[t] = "wheel" /\ req[t].kind = "cmd")
           => LET s  == RobotState.speed
                  tt == RoundHalfEven(7 * s, 10)
                  a  == loc[t].args
                  c  == req[t].c
                  k  == kinematics(a[1], a[2], a[3], RobotState.forward_heading_deg)
              IN  /\ a[1] = 0
                  /\ c = "W" => a = <<0, 1000 * s, 0>>
                  /\ c = "S" => a = <<0, -1000 * s, 0>>
                  /\ c = "A" => a = <<0, 1000 * s, 1000 * tt>>
                  /\ c = "D" => a = <<0, 1000 * s, -1000 * tt>>
                  /\ c = "Q" => a = <<0, 0, 1000 * tt>>
                  /\ c = "E" => a = <<0, 0, -1000 * tt>>
                  /\ c = "X" => a = <<0, 0, 0>>
                  /\ c \in {"W", "S", "A", "D", "Q", "E", "X"}
                  /\ loc[t].w = <<k[1], k[2], k[3]>>

\* D at speed 3000: (0, 3000, -2100).
C7_Witness ==
    \E t \in Threads :
        /\ pc[t] = "wheel" /\ req[t].c = "D" /\ RobotState.speed = 3000
        /\ loc[t].args = <<0, 3000000, -2100000>>

\* C8: /drive clamps each axis to [-1, 1], scales vx and vy by the speed and
\* omega by speed * 0.7, and takes the stop branch exactly when the sum of
\* the magnitudes is below 1.0; the stop branch leaves 0 on all three
\* wheels.  (0.01, 0.01, 0) at speed 3000 drives; (0, 0, 0) stops.
C8_AnalogDrive ==
    \A t \in Threads :
        (req[t].kind = "drive" /\ pc[t] \in {"stop", "wheel", "ret"})
           => LET s   == RobotState.speed
                  cx  == IF req[t].vx > 100 THEN 100 ELSE IF req[t].vx < -100 THEN -100 ELSE req[t].vx
                  cy  == IF req[t].vy > 100 THEN 100 ELSE IF req[t].vy < -100 THEN -100 ELSE req[t].vy
                  co  == IF req[t].omega > 100 THEN 100 ELSE IF req[t].omega < -100 THEN -100 ELSE req[t].omega
                  sum == 10 * Abs(cx * s) + 10 * Abs(cy * s) + 7 * Abs(co * s)
              IN  /\ pc[t] = "stop" => sum < 1000
                  /\ pc[t] = "wheel"
                        => /\ sum >= 1000
                           /\ loc[t].args = <<10 * cx * s, 10 * cy * s, 7 * co * s>>
                  /\ (pc[t] = "ret" /\ sum < 1000 /\ busCaps.speed)
                        => wheel = [sid \in {1, 2, 3} |-> 0]
                  /\ (req[t].vx = 1 /\ req[t].vy = 1 /\ req[t].omega = 0 /\ s = 3000)
                        => pc[t] # "stop"
                  /\ (req[t].vx = 0 /\ req[t].vy = 0 /\ req[t].omega = 0)
                        => pc[t] # "wheel"

\* (0.01, 0.01, 0) at speed 3000 has gone to the kinematics as (30, 30, 0).
C8_Witness ==
    \E t \in Threads :
        /\ pc[t] = "wheel" /\ req[t].kind = "drive"
        /\ req[t].vx = 1 /\ req[t].vy = 1 /\ req[t].omega = 0
        /\ RobotState.speed = 3000 /\ loc[t].args = <<30000, 30000, 0>>

\* C9: a request that leaves its `with lock:` block, by return or by an
\* error, has had save_state called since its last change of RobotState.
C9_PersistBeforeRelease ==
    \A t \in Threads : pc[t] \in {"ret", "raise"} => ~loc[t].dirty

\* C10: when save_state fails, the handler goes on to its return with a
\* success result, and RobotState keeps the value the request gave it: no
\* step from the failed save to the response changes it.
C10_SaveFailureKept ==
    [][\A t \in Threads :
          /\ (pc[t] = "save" /\ pc'[t] # "save" /\ loc'[t].saved = "failed")
                => (RobotState' = RobotState /\ pc'[t] = "ret" /\ loc'[t].res = "ok"
                    /\ req'[t] = req[t])
          /\ (pc[t] = "ret" /\ loc[t].saved = "failed" /\ pc'[t] # "ret")
                => (RobotState' = RobotState /\ loc[t].res = "ok" /\ pc'[t] = "idle")]_vars

\* A `+` from 600 whose save failed is about to answer ok with speed 700.
C10_Witness ==
    \E t \in Threads :
        /\ pc[t] = "ret" /\ loc[t].saved = "failed" /\ loc[t].res = "ok"
        /\ req[t].c = "+" /\ RobotState.speed = 700


\* ---------------------------------------------------------------- /config claims
ValidActive(S) ==
    IF S.cameras = <<>> THEN S.active_camera = 0
    ELSE 0 <= S.active_camera /\ S.active_camera < Len(S.cameras)

OutOfRange(r) ==
    r.hasActive /\ r.bad = "" /\ ~(0 <= r.active /\ r.active < Len(RobotState.cameras))

AddsCam(r) == r.hasAdd /\ r.addUrl

\* C11: a /config patch whose active_camera is an integer outside
\* [0, len(cameras)) is served without error (the handler goes on to
\* save_state with the result ok, and returns ok); active_camera keeps its
\* value unless the same patch adds or removes a camera, and the heading and
\* show_all_cameras fields of the patch are applied.
C11_BadIndexIgnored ==
    [][\A t \in Threads :
          (pc[t] = "config" /\ pc'[t] # "config" /\ OutOfRange(req[t]))
             => /\ pc'[t] = "save" /\ loc'[t].res = "ok"
                /\ (~AddsCam(req[t]) /\ ~req[t].remove)
                      => RobotState'.active_camera = RobotState.active_camera
                /\ req[t].hasHeading
                      => RobotState'.forward_heading_deg = req[t].heading
                /\ req[t].hasShow
                      => RobotState'.show_all_cameras = req[t].show
                /\ AddsCam(req[t]) /\ ~req[t].remove
                      => RobotState'.cameras = Append(RobotState.cameras, req[t].cam)]_vars

\* The patch {active_camera: 5, forward_heading_deg: 15, show_all_cameras:
\* false} has been answered ok: heading and show are the patch's, the active
\* camera is not 5.
C11_Witness ==
    \E t \in Threads :
        /\ pc[t] = "ret" /\ loc[t].res = "ok"
        /\ req[t].hasActive /\ req[t].active = 5 /\ req[t].hasHeading
        /\ RobotState.forward_heading_deg = 15
        /\ RobotState.show_all_cameras = FALSE
        /\ RobotState.active_camera = 0

\* C12: from a loaded state whose active_camera is valid, after any sequence
\* of /config patches active_camera is an index into cameras, or 0 when
\* cameras is empty.
C12_ActiveValid == ValidActive(RobotState)

\* The last camera of the list was the active one and has been removed:
\* active_camera is the new last index.
C12_Witness ==
    \E t \in Threads :
        /\ pc[t] = "save" /\ req[t].remove /\ ~AddsCam(req[t])
        /\ RobotState.cameras = <<1, 2, 3>>
        /\ RobotState.active_camera = 2

\* The index remove_active_camera pops when the patch is r.
ActiveAtRemove(r) ==
    IF r.hasActive /\ 0 <= r.active /\ r.active < Len(RobotState.cameras)
    THEN r.active ELSE RobotState.active_camera

\* C13: add_camera with a url puts the entry at the end of cameras, the
\* entries before it unchanged, and makes it active; remove_active_camera
\* deletes the entry at the active index, the others keeping their order,
\* and leaves active_camera = min(old index, new length - 1), 0 when the list
\* is then empty; on an empty list it changes nothing.
C13_AddRemove ==
    [][\A t \in Threads :
          (pc[t] = "config" /\ pc'[t] = "save")
             => LET r    == req[t]
                    old  == RobotState.cameras
                    new  == RobotState'.cameras
                    a    == ActiveAtRemove(r)
                IN  /\ (AddsCam(r) /\ ~r.remove)
                          => /\ Len(new) = Len(old) + 1
                             /\ \A i \in 1..Len(old) : new[i] = old[i]
                             /\ new[Len(new)] = r.cam
                             /\ RobotState'.active_camera = Len(new) - 1
                    /\ (r.remove /\ ~AddsCam(r) /\ old # <<>>)
                          => /\ Len(new) = Len(old) - 1
                             /\ \A i \in 1..Len(new) :
                                   new[i] = IF i <= a THEN old[i] ELSE old[i + 1]
                             /\ RobotState'.active_camera =
                                   IF new = <<>> THEN 0 ELSE Min2(a, Len(new) - 1)
                    /\ (r.remove /\ ~AddsCam(r) /\ old = <<>>)
                          => /\ new = <<>>
                             /\ RobotState'.active_camera = RobotState.active_camera]_vars

\* Camera 7 was added at the end, then the entry at index 1 was removed: the
\* others are in their order and the active index is still 1.
C13_Witness ==
    \E t \in Threads :
        /\ pc[t] = "save" /\ req[t].remove /\ req[t].hasActive /\ req[t].active = 1
        /\ RobotState.cameras = <<1, 3, 7>>
        /\ RobotState.active_camera = 1


\* ---------------------------------------------------------------- /zlift claims
\* A /zlift body with no pos, no delta, and no preset among home, min, max.
NoTarget(r) ==
    /\ r.kind = "zlift"
    /\ \/ r.form = "none"
       \/ r.form = "preset" /\ PresetNorm(r.preset) \notin {"home", "min", "max"}

\* C14: a /zlift request with no pos, no delta and no preset naming home, min
\* or max is answered with the error "provide pos/delta/preset"; while it is
\* served RobotState (z_lift.pos included) and the position on the bus stay
\* as they were, and the thread reaches neither the servo write nor
\* save_state.
C14_NoTargetIsError ==
    [][\A t \in Threads :
          (pc'[t] # pc[t] /\ (NoTarget(req[t]) \/ NoTarget(req'[t])))
             => /\ RobotState' = RobotState
                /\ zsent' = zsent
                /\ pc'[t] \in {"zlift", "ret", "idle"}
                /\ pc[t] = "zlift"
                      => /\ pc'[t] = "ret"
                         /\ loc'[t].res = "provide pos/delta/preset"
                         /\ loc'[t].saved = "none"]_vars

\* After an earlier move to 1500, a /zlift body with the preset "bogus" has
\* been answered with the error; the position is still 1500.
C14_Witness ==
    \E t \in Threads :
        /\ pc[t] = "ret" /\ req[t].kind = "zlift" /\ req[t].preset = "bogus"
        /\ loc[t].res = "provide pos/delta/preset"
        /\ RobotState.z_lift.pos = 1500 /\ zsent.pos = 1500


\* C15: the position a Z-lift move puts on the bus is, on a server started
\* with Z_LIFT_DIR = -1, the clamped target p mirrored in the configured
\* range, z.min + z.max - p, a position within [z.min, z.max]; with
\* Z_LIFT_DIR = 1 it is p; z_lift.pos holds p in both cases.
C15_Mirrored ==
    [][\A t \in Threads :
          (pc[t] = "zwrite" /\ pc'[t] = "save")
             => LET z == RobotState.z_lift
                    p == loc[t].zpos
                IN  /\ RobotState'.z_lift.pos = p
                    /\ z.min <= p /\ p <= z.max
                    /\ IF zliftDir = -1
                       THEN /\ zsent'.pos = z.min + z.max - p
                            /\ z.min <= zsent'.pos /\ zsent'.pos <= z.max
                       ELSE zsent'.pos = p]_vars


NameIpBefore(a, b) ==
    \/ StrLess(Lower(a.robot_name), Lower(b.robot_name))
    \/ /\ Lower(a.robot_name) = Lower(b.robot_name)
       /\ StrLess(a.ip, b.ip)

Answered == {PeerOf(h) : h \in {g \in Hosts : probes[g].res = "peer"}}

Listed(s) == {s[i] : i \in 1..Len(s)}

\* C17: the list discover_robots returns is in ascending order of
\* (robot_name lower-cased, ip), each peer once; when the scan was not
\* stopped it holds exactly the probes that succeeded, so it is the one list
\* that set has in this order, whatever the order the probes finished in;
\* "Alpha"/10.0.0.9 stands before "Bravo"/10.0.0.5.
C17_SortedByNameIp ==
    scan = "returned"
       => /\ \A i, j \in 1..Len(scan_found) :
                i < j => NameIpBefore(scan_found[i], scan_found[j])
          /\ Listed(scan_found) \subseteq Answered
          /\ ~stop_event => Listed(scan_found) = Answered
          /\ \A i, j \in 1..Len(scan_found) :
                (scan_found[i] = PeerOf(2) /\ scan_found[j] = PeerOf(1)) => i < j

\* Every robot answered and no stop was set: the list is "alpha"/10.0.0.10,
\* "Alpha"/10.0.0.9, "Bravo"/10.0.0.5.
C17_Witness ==
    /\ scan = "returned" /\ ~stop_event
    /\ scan_found = <<PeerOf(3), PeerOf(2), PeerOf(1)>>

\* C18 as stated: no result is appended to `found` once stop_event is set.
C18_Original == lateAdds = 0

\* C18 amended: once the scan thread has seen the stop event set (its
\* is_set() check returned True) nothing is appended to `found`, and probes
\* that finish afterwards change neither `found` nor the thread's way to its
\* return; a result whose is_set() check came before the event was set is
\* still appended, so at most one result is added after the event is set.
C18_NoAddOnceObserved ==
    [][/\ lateAdds' <= 1
       /\ (stop_event /\ scan = "is_set" /\ scan' # scan)
             => (scan' = "exit" /\ found' = found)
       /\ scan \in {"exit", "returned"}
             => /\ scan' \in {"exit", "returned"}
                /\ Len(found') = Len(found)
                /\ Listed(found') = Listed(found)]_vars

\* The scan returned after the stop event was set while a probe was still
\* running: that probe's robot answered and is not in the returned list.
C18_Witness ==
    /\ scan = "returned" /\ stop_event
    /\ \E h \in Hosts : probes[h].st = "done" /\ probes[h].res = "peer"
                        /\ PeerOf(h) \notin Listed(scan_found)
    /\ Len(scan_found) >= 1


\* ---------------------------------------------------------------- stream claims
\* C19: once a connection has delivered the bytes of two concatenated
\* minimal JPEGs, in whatever chunks, the extractor has cut out exactly the
\* two of them, in arrival order, and buf is empty.
C19_TwoFrames ==
    (stream = "read" /\ body = <<>>)
       => (jpgs = <<Jpeg(1), Jpeg(2)>> /\ buf = <<>>)

\* C20: the stream thread ends only by finding its stop flag set at the loop
\* test; after a failed connect or read it sleeps, returns to the loop test
\* and, the flag not set, to the connect step, however many failures came
\* before; and a sleeping thread does get back to the connect step unless
\* the flag is set.
C20_RetriesForever ==
    /\ [][/\ stream' = "stopped" => (stream = "stopped" \/ stream_stop)
          /\ (stream = "sleep" /\ stream' # stream) => stream' = "loop"
          /\ (stream = "loop" /\ ~stream_stop /\ stream' # stream)
                => stream' = "connect"]_vars
    /\ (stream = "sleep") ~> (stream = "connect" \/ stream_stop)

\* After MaxFailures failures, the flag not set, the thread is at the
\* connect step again.
C20_Witness ==
    stream = "connect" /\ failures = MaxFailures /\ ~stream_stop


\* C21 as stated: once the stop flag is set the task opens no connection.
C21_Original ==
    [][stream_stop => ~(stream = "connect" /\ stream' = "read")]_vars

\* C21 amended: with the stop flag set, the next read iteration leaves the
\* read loop without cutting a frame (or the read fails and the task
\* sleeps), the loop test ends the task, and from the read loop, the sleep
\* and the loop test the task never gets to the connect step again; only a
\* connect that was already under way when the flag was set may still open
\* its connection, which the first read iteration then leaves.  Under fair
\* scheduling of the task a set flag leads to the task's end.
C21_StopTerminates ==
    /\ [][/\ (stream_stop /\ stream = "read" /\ stream' # stream)
                => (stream' \in {"loop", "sleep"} /\ jpgs' = jpgs /\ buf' = buf)
          /\ (stream_stop /\ stream = "loop" /\ stream' # stream)
                => stream' = "stopped"
          /\ (stream_stop /\ stream \in {"read", "sleep", "loop", "stopped"})
                => stream' # "connect"
          /\ stream = "stopped" => stream' = "stopped"]_vars
    /\ stream_stop ~> (stream = "stopped")

\* The task has ended, stopped in the middle of a body after its first frame.
C21_Witness ==
    /\ stream = "stopped" /\ stream_stop
    /\ jpgs = <<Jpeg(1)>> /\ body # <<>>


\* ---------------------------------------------------------------- bus claims
\* The request r writes the wheels / moves the Z-lift.
WritesWheels(r) ==
    \/ r.kind = "cmd" /\ r.c \in DriveCodes
    \/ r.kind = "drive" /\ r.bad = ""

MovesZ(r) ==
    \/ r.kind = "cmd" /\ r.c \in ZCodes
    \/ r.kind = "zlift" /\ ZliftHasTarget(r) /\ ~ZliftRaises(r)

\* C26: on a bus without a speed-write method no request that writes the
\* wheels (a drive code of /cmd, /drive in its live and its near-zero
\* branch) is answered ok, and on a bus without a position-write method no
\* Z-lift move is: the RuntimeError of the first write reaches the caller.
C26_BusErrorPropagates ==
    \A t \in Threads :
        (pc[t] = "ret" /\ loc[t].res = "ok")
           => /\ ~(WritesWheels(req[t]) /\ ~busCaps.speed)
              /\ ~(MovesZ(req[t]) /\ ~busCaps.pos)


\* C27: every speed the bus has been given for a wheel is within
\* [-MAX_SPEED, MAX_SPEED]; a write of apply_drive gives the bus the wheel's
\* sign times the kinematics value cut to that range, also when the value
\* lies outside it (A at speed 3000 and heading 0: 5100 for wheel 1).
C27_WheelClamped ==
    [][/\ \A sid \in {1, 2, 3} : Abs(wheel'[sid]) <= MAX_SPEED
       /\ \A t \in Threads :
             (pc[t] = "wheel" /\ loc'[t].i = loc[t].i + 1)
                => LET i   == loc[t].i
                       sid == SERVO_IDS[i]
                       w   == loc[t].w[i]
                       cut == IF w > MAX_SPEED THEN MAX_SPEED
                              ELSE IF w < -MAX_SPEED THEN -MAX_SPEED ELSE w
                   IN  wheel'[sid] = DIR[sid] * cut]_vars

\* A at speed 3000, heading 0: the kinematics gave 5100 for the first wheel
\* and the bus was given MAX_SPEED in magnitude.
C27_Witness ==
    \E t \in Threads :
        /\ pc[t] = "wheel" /\ req[t].c = "A" /\ loc[t].i = 2
        /\ loc[t].w[1] = 5100
        /\ Abs(wheel[SERVO_IDS[1]]) = MAX_SPEED

\* The bytes b hold a start-of-image marker and, somewhere behind it, an
\* end-of-image marker.
HasFrame(b) ==
    \E i, j \in 1..Len(b) :
        /\ i < j /\ j < Len(b)
        /\ SubSeq(b, i, i + 1) = SOI
        /\ SubSeq(b, j, j + 1) = EOI

\* The bytes the read-loop step at hand took off the response body.
Arrived == SubSeq(body, 1, Len(body) - Len(body'))

\* C22: the event step of an iteration in which a directional key goes down
\* leaves that key's code as the held command and posts it, and one in which
\* a directional key goes up leaves X held and posts X, in that same
\* iteration and whatever the time since the previous post.
C22_KeySendsAtOnce ==
    [][\A k \in DirKeys :
          /\ (k \notin down /\ k \in down')
                => /\ held_cmd' = k
                   /\ sent' = Append(sent, k)
                   /\ last_cmd_sent' = clk
          /\ (k \in down /\ k \notin down')
                => /\ held_cmd' = "X"
                   /\ sent' = Append(sent, "X")
                   /\ last_cmd_sent' = clk]_vars

\* A key went up one frame after the post before, and X has gone out.
C22_Witness ==
    /\ hud = "pad" /\ ev.type = "up"
    /\ sent = <<"X">> /\ held_cmd = "X"
    /\ gap > 0 /\ gap < RepeatMs

\* The longest a heartbeat of RepeatMs may be apart on frames of FineTicks.
GapMax == RepeatMs + 34

\* C23: at the end of every iteration during which one directional key has
\* been down alone (stick at rest, no other event since it went down) the
\* held command is that key's code and the last post is no more than GapMax
\* milliseconds old, with a gamepad and without; and the iteration that
\* handles a release posts X.  Refuted: the heartbeat stands in the gamepad
\* block alone; without a gamepad the code is posted once and never again,
\* and with one the stick at rest makes the same iteration post X.
C23_HeldKeyResent ==
    /\ (hud = "tick" /\ since.key # "")
          => /\ held_cmd = since.key
             /\ clk - last_cmd_sent <= GapMax
    /\ (hud = "pad" /\ ev.type = "up") => sent = <<"X">>

\* C24: the tier drawn is OK for an age of the last successful fetch below
\* 2 s, STALE from 2 s to below 6 s, DOWN from 6 s on and when no fetch has
\* succeeded; a poll that fails leaves the time of the last success alone.
C24_LinkTier ==
    /\ [](hud = "tick" /\ link_str # ""
            => LET age == clk - last_state_ok_ts
               IN  /\ link_str = "OK"
                      <=> (last_state_ok_ts # 0 /\ age < 2000)
                   /\ link_str = "STALE"
                      <=> (last_state_ok_ts # 0 /\ age >= 2000 /\ age < 6000)
                   /\ link_str = "DOWN"
                      <=> (last_state_ok_ts = 0 \/ age >= 6000))
    /\ [][(hud = "poll" /\ hud' = "events" /\ polled' # "ok")
             => last_state_ok_ts' = last_state_ok_ts]_vars

\* The last success is exactly 2 s old after a poll that failed: STALE.
C24_Witness ==
    /\ hud = "tick" /\ link_str = "STALE"
    /\ polled = "fail"
    /\ clk - last_state_ok_ts = 2000

\* C25: a poll that succeeds with a camera list of another length than the
\* known one stops every stream of cam_streams and starts one new stream per
\* reported camera, on that camera's url; one with a list of the same length
\* stops and starts nothing.
C25_RestartOnLength ==
    [][(hud = "poll" /\ hud' = "events" /\ polled' = "ok")
          => IF Len(cams') # Len(cams)
             THEN /\ \A k \in 1..Len(cam_streams) : made'[cam_streams[k]].stop
                  /\ Len(cam_streams') = Len(cams')
                  /\ \A k \in 1..Len(cams') :
                        /\ cam_streams'[k] > Len(made)
                        /\ made'[cam_streams'[k]] = [url |-> cams'[k], stop |-> FALSE]
                  /\ \A k, l \in 1..Len(cams') :
                        k # l => cam_streams'[k] # cam_streams'[l]
             ELSE /\ made' = made
                  /\ cam_streams' = cam_streams]_vars

\* Two cameras were replaced by two others: the streams of the old urls run on.
C25_Witness ==
    /\ polled = "ok" /\ hud = "events"
    /\ cams = <<3, 2>>
    /\ cam_streams = <<1, 2>>
    /\ made = <<[url |-> 1, stop |-> FALSE], [url |-> 2, stop |-> FALSE]>>

\* C28: whenever a chunk has been added and the buffer then holds an SOI with
\* an EOI behind it, that round of the read loop cuts a frame out (from an
\* SOI to an EOI) and the buffer is advanced past it, whatever precedes the
\* SOI.  Refuted by a stray EOI in front of the first SOI: find() keeps
\* returning that EOI, b > a never holds and nothing is ever cut.
C28_FrameExtracted ==
    [][(stream = "read" /\ ~stream_stop /\ Len(body') < Len(body)
            /\ HasFrame(buf \o Arrived))
          => /\ Len(jpgs') = Len(jpgs) + 1
             /\ Len(buf') < Len(buf \o Arrived)]_vars

\* C29: the frame counter never decreases and the slot is empty exactly while
\* nothing has been decoded; a round of the read loop that cuts a byte string
\* out of the buffer removes it from the buffer and stays on the connection,
\* and it puts the image into the slot, counts it and stamps it when the
\* bytes decode, and leaves slot, counter and stamp alone when they do not;
\* no other step touches the three.
C29_SlotAndCounter ==
    /\ [](frames <= cuts /\ ((frames = 0) <=> (frame = <<>>)))
    /\ [][/\ frames' >= frames
          /\ (Len(jpgs') = Len(jpgs) + 1)
                => LET j    == jpgs'[Len(jpgs')]
                       nb   == buf \o Arrived
                       good == Len(j) = 5 /\ j[3] # 0
                   IN  /\ stream' = "read"
                       /\ \E a \in 0..Len(nb) :
                             /\ SubSeq(nb, a + 1, a + Len(j)) = j
                             /\ buf' = SubSeq(nb, a + Len(j) + 1, Len(nb))
                       /\ IF good
                          THEN /\ frame' = j
                               /\ frames' = frames + 1
                               /\ last_frame_ts' > last_frame_ts
                          ELSE UNCHANGED <<frame, frames, last_frame_ts>>
          /\ (Len(jpgs') # Len(jpgs) + 1)
                => UNCHANGED <<frame, frames, last_frame_ts>>]_vars

\* A damaged image was cut and passed over, and the next image of the same
\* connection went into the slot.
C29_Witness ==
    /\ stream = "read"
    /\ jpgs = <<Jpeg(0), Jpeg(1)>>
    /\ frame = Jpeg(1) /\ frames = 1 /\ cuts = 2 /\ last_frame_ts = 2

\* C30: every connect the stream thread attempts after a connection of its
\* session was lost is preceded by the retry delay.  Refuted when the server
\* ends the response cleanly: the for loop ends, no exception is raised and
\* the loop test leads straight to the next requests.get.
C30_DelayBeforeReconnect ==
    [][(stream = "connect" /\ stream' # stream) => slept]_vars

\* The code the mapping is to give for left stick (lx, ly) and rotation rx,
\* all after the deadzone.
Mapped(lx, ly, rx) ==
    LET forward == -ly
    IN  CASE rx >= 35 /\ forward > -20 /\ forward < 20  -> "E"
          [] rx <= -35 /\ forward > -20 /\ forward < 20 -> "Q"
          [] OTHER ->
               CASE forward > 25 /\ lx < -25 -> "A"
                 [] forward > 25 /\ lx > 25  -> "D"
                 [] forward > 25 /\ lx >= -25 /\ lx <= 25 -> "W"
                 [] forward < -25 -> "S"
                 [] OTHER -> "X"

\* x with magnitudes below 0.18 zeroed.
Zeroed(x) == IF x > -18 /\ x < 18 THEN 0 ELSE x

\* C31: the gamepad step leaves as held command the code mapped from the
\* deadzone-filtered left stick and the deadzone-filtered rotation axis of
\* largest magnitude among axes 2, 3, 4; when that code differs from the
\* held one it is posted, once, whatever the time since the last post, and
\* when it is the same nothing is force-posted.
C31_PadMapping ==
    [][(hud = "pad" /\ hud' = "draw" /\ joystick)
          => \E v \in {axes[3], axes[4], axes[5]} :
                /\ \A w \in {axes[3], axes[4], axes[5]} : Abs(v) >= Abs(w)
                /\ LET code == Mapped(Zeroed(axes[1]), Zeroed(axes[2]), Zeroed(v))
                   IN  /\ held_cmd' = code
                       /\ code # held_cmd
                             => /\ sent' = Append(sent, code)
                                /\ last_cmd_sent' = clk
                       /\ (code = held_cmd /\ clk - last_cmd_sent < RepeatMs)
                             => sent' = sent]_vars

\* The stick stands exactly on the forward threshold and just inside the
\* rotate band: E was posted in place of the W held before.
C31_Witness ==
    /\ hud = "draw" /\ joystick
    /\ axes = <<0, -19, 35, 0, 0>>
    /\ held_cmd = "E" /\ sent = <<"E">>
    /\ gap = 17

\* C32: the bus write of a Z-lift move carries the request's speed override
\* whenever it has one, 0 included, and the configured z_lift.speed when it
\* has none; the configured speed is not changed by the move.  Refuted by an
\* override of 0: `speed or ...` takes the configured speed in its place.
C32_SpeedOverride ==
    [][\A t \in Threads :
          (pc[t] = "zwrite" /\ pc'[t] = "save")
             => /\ zsent'.speed = IF req[t].kind = "zlift" /\ req[t].hasSpeed
                                  THEN req[t].spd
                                  ELSE RobotState.z_lift.speed
                /\ RobotState'.z_lift.speed = RobotState.z_lift.speed]_vars

\* The configured value a preset, or the discrete code of the same name,
\* stands for.
Configured(z, what) ==
    CASE what \in {"home", "Z0", "ZHOME"} -> z.home
      [] what \in {"min", "ZMIN"} -> z.min
      [] what \in {"max", "ZMAX"} -> z.max

\* C33: a /zlift preset home, min or max, like the discrete code Z0, ZMIN or
\* ZMAX, leaves as z_lift.pos the axis's configured home, min or max, brought
\* into [z_lift.min, z_lift.max].  Refuted for home: the preset takes the
\* compiled-in Z_LIFT_HOME_POS where Z0 takes z_lift.home.
C33_PresetsConfigured ==
    [][\A t \in Threads :
          (pc[t] \in {"cmd", "zlift"} /\ pc'[t] = "zwrite")
             => LET z    == RobotState.z_lift
                    what == IF req[t].kind = "cmd" THEN req[t].c ELSE req[t].preset
                    v    == Configured(z, what)
                    want == IF v > z.max THEN (IF z.max < z.min THEN z.min ELSE z.max)
                            ELSE IF v < z.min THEN z.min ELSE v
                IN  RobotState'.z_lift.pos = want]_vars

\* C34: the wheel speeds change only in a write step of a thread that serves
\* a drive code of /cmd or a /drive body; no step of a thread serving `+`,
\* `=`, `-`, /config or /state, and no step without a request, changes them.
C34_WheelsKept ==
    [][/\ wheel' # wheel
          => \E t \in Threads :
                /\ pc[t] \in {"wheel", "stop"}
                /\ loc'[t].i = loc[t].i + 1
                /\ WritesWheels(req[t])
       /\ \A t \in Threads :
             (/\ pc'[t] # pc[t]
              /\ \/ req[t].kind \in {"config", "state"}
                 \/ req[t].kind = "cmd" /\ req[t].c \in {"+", "=", "-"})
                => wheel' = wheel]_vars

\* W was written at speed 600 and trim -20; the speed has since gone down,
\* the trim was patched to 0 and the state read: the wheels are as W left
\* them.
C34_Witness ==
    /\ wheel = <<564, -460, -104>>
    /\ RobotState.speed = DEFAULT_SPEED - SPEED_STEP
    /\ RobotState.forward_heading_deg = 0
    /\ \E t \in Threads : pc[t] = "ret" /\ req[t].kind = "state"

\* C35: once the scan of the server browser is marked done, by its end or by
\* the timeout, the list the browser shows, scan_data["found"], does not
\* change.  Refuted after a timeout: the scan is marked done while the list
\* is still empty, and the worker stores what discover_robots returns later.
C35_DoneListFixed ==
    [][scan_done => scan_found' = scan_found]_vars

\* C36: the step in which the held command becomes X posts X, once; while X
\* stays held no step posts anything unless it handles an input event; the
\* outcome of the post plays no part.
C36_StopOnce ==
    [][/\ (held_cmd # "X" /\ held_cmd' = "X")
          => sent' = Append(sent, "X")
       /\ (/\ held_cmd = "X" /\ held_cmd' = "X"
           /\ ~(hud = "events" /\ ev'.type # "none"))
          => Len(sent') <= Len(sent)]_vars

\* The one Stop was lost, more than a heartbeat period has passed with a
\* gamepad attached, and nothing has been posted since.
C36_Witness ==
    /\ hud = "tick" /\ joystick
    /\ held_cmd = "X" /\ ~acked
    /\ last_cmd_sent # 0
    /\ clk - last_cmd_sent > RepeatMs

\* C37: the step that leaves the session stops every stream of cam_streams
\* and, when the held command is not X, posts X.  Refuted in its second
\* part: no exit posts anything.
C37_ExitStops ==
    [][(hud = "events" /\ hud' = "closed")
          => /\ \A k \in 1..Len(cam_streams) : made'[cam_streams[k]].stop
             /\ held_cmd # "X" => sent' = Append(sent, "X")]_vars

\* C38: when a directional key goes up while the key of the held code is
\* still down, the held command stays and nothing is posted; when the key of
\* the held code goes up, X is held and posted.  Refuted in its first part:
\* KEYUP of any directional key sets X and posts it.
C38_OtherKeyUp ==
    [][\A k \in DirKeys :
          (hud = "events" /\ k \in down /\ k \notin down')
             => IF held_cmd = k
                THEN held_cmd' = "X" /\ sent' = Append(sent, "X")
                ELSE held_cmd \in down
                        => held_cmd' = held_cmd /\ sent' = sent]_vars

\* C39: in every state of a HUD session, behind the initial fetch and after
\* any sequence of polls (answered or failed), camera-list changes and
\* camera-select inputs, there is one stream session per known camera, and
\* when the camera list is not empty the active camera index is within
\* [0, number of cameras).
C39_StreamsMatchCams ==
    hud \notin {"off", "enter"}
        => /\ Len(cam_streams) = Len(cams)
           /\ cams # <<>> => 0 <= active_cam /\ active_cam < Len(cams)

\* The list has shrunk to one camera under a selection of the second one,
\* and a camera-select input has followed.
C39_Witness ==
    /\ cams = <<1>>
    /\ Len(made) >= 3
    /\ active_cam = 0
    /\ ev.type = "cam"

\* What a thread inside a handler's `with lock:` block can do next.
InsideStep(t) ==
    \/ Respond(t) \/ CmdSpeed(t) \/ CmdZ(t) \/ CmdDrive(t) \/ CmdUnknown(t)
    \/ DriveBody(t) \/ ZliftBody(t) \/ ConfigBody(t) \/ StateBody(t)
    \/ ServoWrite(t) \/ WheelWrite(t) \/ StopWrite(t) \/ SaveState(t)
    \/ Release(t)

\* C40: the lock is released on every exit of a handler's guarded section,
\* the exits by an error raised from an actuator write or from parsing a
\* patch value included: a step that takes a thread out of the section frees
\* the lock, the lock is never held while no thread is inside, a thread
\* inside always has a next step, and a request waiting at a free lock can
\* enter, whatever failed before.
C40_LockReleased ==
    /\ [][\A t \in Threads : (InCS(t) /\ ~InCS(t)') => ~lock']_vars
    /\ [](lock => \E t \in Threads : InCS(t))
    /\ [](\A t \in Threads : InCS(t) => ENABLED InsideStep(t))
    /\ [](\A t \in Threads :
            (pc[t] = "wait" /\ \A u \in Threads : ~InCS(u))
                => ENABLED (\E r \in Requests : Acquire(t, r)))

\* A ZMAX command has failed at its actuator write (the bus offers no
\* position write, and the target is in RobotState but was never sent), and
\* a /state request that came later holds the lock and is about to return,
\* the other thread waiting behind it.
C40_Witness ==
    \E t, u \in Threads :
        /\ t # u
        /\ ~busCaps.pos
        /\ RobotState.z_lift.pos = Z_LIFT_MAX_POS
        /\ zsent = [pos |-> 0, speed |-> 0]
        /\ lock
        /\ pc[t] = "ret" /\ req[t].kind = "state" /\ loc[t].res = "ok"
        /\ pc[u] = "wait"

====
